---- MODULE Spec2Model ----
(***************************************************************************)
(* A model of the task-graph optimizer of flash.core.serve.dag:            *)
(*   task.py          task recognition, dependency extraction, subs,       *)
(*                    _toposort / toposort / getcycle / isdag, get         *)
(*   optimization.py  cull, inline, inline_functions, fuse_linear, fuse,   *)
(*                    _inplace_fuse_subgraphs, SubgraphCallable            *)
(*                                                                         *)
(* Python values are records Val(tag, s, n, xs):                           *)
(*   "int"   a number n            "str"   a string s (a key or a literal) *)
(*   "tuple" a tuple xs            "list"  a list xs                       *)
(*   "dict"  a dict with values xs "fn"    a named function s (callable)   *)
(*   "float" a float n (n.0)                                               *)
(*   "sgc"   a SubgraphCallable    "app"   the result of calling fn s on   *)
(*                                         the results xs (functions are   *)
(*                                         uninterpreted)                  *)
(* A graph (dsk) is a function from key strings to values.  The iteration  *)
(* order of Python sets and dicts is not fixed by the language; here every *)
(* iteration follows the sequence `ord` (a permutation of the keys), which *)
(* is drawn nondeterministically.                                          *)
(***************************************************************************)
EXTENDS Integers, Sequences, FiniteSets, TLC

VARIABLES
    dsk,             \* the caller's graph
    keys,            \* the caller's keys / output / targets argument (a set)
    opts,            \* the remaining arguments of the call
    ord,             \* iteration order of sets and dicts
    pc,              \* position in the call
    res,             \* what the call returned
    rv,              \* fuse: working copy of the graph
    deps,            \* fuse: key -> set of dependencies
    reducible,       \* fuse: keys that may still be fused into their dependent
    info_stack,      \* fuse: per-node fusion metrics
    children_stack,  \* fuse: keys whose children are not yet expanded
    fused_trees,     \* fuse: root key -> list of absorbed keys
    parent           \* fuse: the node the traversal is working on

vars == <<dsk, keys, opts, ord, pc, res, rv, deps, reducible, info_stack,
          children_stack, fused_trees, parent>>

-----------------------------------------------------------------------------
(* Sequences and sets *)

Range(s) == {s[i] : i \in DOMAIN s}

Last(s) == s[Len(s)]

Front(s) == SubSeq(s, 1, Len(s) - 1)

Reverse(s) == [i \in 1..Len(s) |-> s[Len(s) + 1 - i]]

RECURSIVE SetToSeq(_)
SetToSeq(S) ==
    IF S = {} THEN <<>>
    ELSE LET x == CHOOSE y \in S : TRUE IN <<x>> \o SetToSeq(S \ {x})

RECURSIVE Concat(_)
Concat(ss) == IF ss = <<>> THEN <<>> ELSE Head(ss) \o Concat(Tail(ss))

\* The elements of S in iteration order o (elements o does not list come last).
IterSet(S, o) ==
    SelectSeq(o, LAMBDA x : x \in S) \o SetToSeq(S \ Range(o))

\* All orderings of a finite set.
Perms(S) ==
    {p \in [1..Cardinality(S) -> S] : \A x \in S : \E i \in DOMAIN p : p[i] = x}

\* The function f without key k, and f with key k bound to v.
Del(f, k) == [x \in (DOMAIN f) \ {k} |-> f[x]]

Put(f, k, v) == [x \in (DOMAIN f) \cup {k} |-> IF x = k THEN v ELSE f[x]]

EmptyMap == [x \in {} |-> 0]

\* F applied to the value of x, which is computed once.
Bind(x, F(_)) == CHOOSE r \in {F(v) : v \in {x}} : TRUE

-----------------------------------------------------------------------------
(* Python values *)

Val(t, s, n, xs) == [tag |-> t, s |-> s, n |-> n, xs |-> xs]

Num(n) == Val("int", "", n, <<>>)

Str(s) == Val("str", s, 0, <<>>)

Flt(n) == Val("float", "", n, <<>>)

Fun(f) == Val("fn", f, 0, <<>>)

Tup(xs) == Val("tuple", "", 0, xs)

Lst(xs) == Val("list", "", 0, xs)

Dct(xs) == Val("dict", "", 0, xs)

Task(f, args) == Tup(<<Fun(f)>> \o args)

\* The result of calling the (uninterpreted) function f on results args.
App(f, args) == Val("app", f, 0, args)

\* A raised exception.
Raised(e) == Val("error", e, 0, <<>>)

IsRaised(v) == v.tag = "error"

callable(x) == x.tag \in {"fn", "sgc"}

istask(x) == x.tag = "tuple" /\ x.xs # <<>> /\ callable(x.xs[1])

RECURSIVE ishashable(_)
ishashable(x) ==
    CASE x.tag \in {"list", "dict"} -> FALSE
      [] x.tag = "tuple" -> \A i \in DOMAIN x.xs : ishashable(x.xs[i])
      [] OTHER -> TRUE

\* `w in dsk`: the keys of the graphs of this model are strings.
InDsk(d, w) == ishashable(w) /\ w.tag = "str" /\ w.s \in DOMAIN d

-----------------------------------------------------------------------------
(* task.py: get_dependencies *)

gd_expand(w) ==
    IF istask(w) THEN Tail(w.xs)
    ELSE IF w.tag \in {"list", "dict"} THEN w.xs
    ELSE <<>>

gd_hit(d, w) == ~istask(w) /\ w.tag \notin {"list", "dict"} /\ InDsk(d, w)

RECURSIVE gd_work(_, _, _)
gd_work(d, work, result) ==
    IF work = <<>> THEN result
    ELSE LET new_work == Concat([i \in DOMAIN work |-> gd_expand(work[i])])
             hits == SelectSeq(work, LAMBDA w : gd_hit(d, w))
         IN gd_work(d, new_work, result \o [i \in DOMAIN hits |-> hits[i].s])

\* get_dependencies(dsk, task=arg, as_list=True)
get_dependencies_list(d, arg) == gd_work(d, <<arg>>, <<>>)

\* get_dependencies(dsk, task=arg)
get_dependencies(d, arg) == Range(get_dependencies_list(d, arg))

\* {k: get_dependencies(dsk, k) for k in dsk}
all_dependencies(d) == [k \in DOMAIN d |-> get_dependencies(d, d[k])]

\* {k: get_dependencies(dsk, k, as_list=True) for k in dsk}
all_dependencies_list(d) == [k \in DOMAIN d |-> get_dependencies_list(d, d[k])]

reverse_dict(d) ==
    [v \in (DOMAIN d) \cup UNION {d[k] : k \in DOMAIN d} |->
        {k \in DOMAIN d : v \in d[k]}]

-----------------------------------------------------------------------------
(* task.py: subs *)

\* a == b in Python: an int and a float of the same value are equal, tuples and
\* lists are equal when their elements are.
RECURSIVE py_eq(_, _)
py_eq(a, b) ==
    IF a.tag \in {"int", "float"} /\ b.tag \in {"int", "float"} THEN a.n = b.n
    ELSE IF a.tag = b.tag /\ a.tag \in {"tuple", "list", "dict"}
    THEN /\ Len(a.xs) = Len(b.xs)
         /\ \A i \in DOMAIN a.xs : py_eq(a.xs[i], b.xs[i])
    ELSE a = b

\* Lines 289-300: the argument has the key's type; a sized argument (a tuple;
\* for a string the test is string equality) has the key's length and equal
\* elements of equal type, any other argument equals the key.
subs_match(arg, key) ==
    /\ arg.tag = key.tag
    /\ IF arg.tag = "tuple"
       THEN /\ Len(arg.xs) = Len(key.xs)
            /\ \A i \in DOMAIN arg.xs :
                  arg.xs[i].tag = key.xs[i].tag /\ py_eq(arg.xs[i], key.xs[i])
       ELSE py_eq(arg, key)

RECURSIVE subs(_, _, _)
subs(task, key, val) ==
    IF ~istask(task) THEN
        IF task.tag = key.tag /\ py_eq(task, key) THEN val
        ELSE IF task.tag = "list"
             THEN Lst([i \in DOMAIN task.xs |-> subs(task.xs[i], key, val)])
             ELSE task
    ELSE
        LET newarg(arg) ==
                IF istask(arg) THEN subs(arg, key, val)
                ELSE IF arg.tag = "list"
                     THEN Lst([i \in DOMAIN arg.xs |-> subs(arg.xs[i], key, val)])
                     ELSE IF subs_match(arg, key) THEN val ELSE arg
        IN Tup([i \in DOMAIN task.xs |->
                  IF i = 1 THEN task.xs[1] ELSE newarg(task.xs[i])])

-----------------------------------------------------------------------------
(* task.py: _toposort, toposort, getcycle, isdag *)

\* Lines 351-355: unwind the traversal stack down to nxt.
RECURSIVE unwind(_, _, _)
unwind(nodes, nxt, cycle) ==
    IF Last(nodes) # nxt
    THEN unwind(Front(nodes), nxt, Append(cycle, Last(nodes)))
    ELSE Append(cycle, Last(nodes))

\* Lines 336-370: the `while nodes` loop; st.cycle is non-empty once a cycle is found.
RECURSIVE toposort_nodes(_, _, _)
toposort_nodes(dependencies, o, st) ==
    IF st.nodes = <<>> \/ st.cycle # <<>> THEN st
    ELSE
      LET cur == Last(st.nodes) IN
      IF cur \in st.completed
      THEN toposort_nodes(dependencies, o, [st EXCEPT !.nodes = Front(@)])
      ELSE
        LET seen == st.seen \cup {cur}
            open == SelectSeq(IterSet(dependencies[cur], o),
                              LAMBDA n : n \notin st.completed)
            back == SelectSeq(open, LAMBDA n : n \in seen)
        IN IF back # <<>>
           THEN [st EXCEPT !.seen = seen,
                           !.cycle = Reverse(unwind(st.nodes, back[1], <<back[1]>>))]
           ELSE IF open # <<>>
           THEN toposort_nodes(dependencies, o,
                    [st EXCEPT !.seen = seen, !.nodes = @ \o open])
           ELSE toposort_nodes(dependencies, o,
                    [st EXCEPT !.ordered = Append(@, cur),
                               !.completed = @ \cup {cur},
                               !.seen = seen \ {cur},
                               !.nodes = Front(@)])

\* Lines 332-335: the `for key in keys` loop.
RECURSIVE toposort_keys(_, _, _, _)
toposort_keys(dependencies, o, ks, st) ==
    IF ks = <<>> \/ st.cycle # <<>> THEN st
    ELSE IF Head(ks) \in st.completed
         THEN toposort_keys(dependencies, o, Tail(ks), st)
         ELSE toposort_keys(dependencies, o, Tail(ks),
                  toposort_nodes(dependencies, o, [st EXCEPT !.nodes = <<Head(ks)>>]))

\* _toposort(dsk, keys, dependencies=dependencies): the final traversal state;
\* .ordered is the order built, .cycle the cycle found (<<>> when none).
_toposort(ks, dependencies, o) ==
    toposort_keys(dependencies, o, ks,
        [nodes |-> <<>>, completed |-> {}, seen |-> {}, ordered |-> <<>>,
         cycle |-> <<>>])

\* toposort with the order of line 367 reversed: dependents before their
\* dependencies.
toposort_reversed(d, dependencies, o) ==
    LET st == _toposort(IterSet(DOMAIN d, o), dependencies, o)
    IN [raised |-> st.cycle # <<>>, ordered |-> Reverse(st.ordered), cycle |-> st.cycle]

\* toposort without the raise of line 359: the keys ordered so far are returned.
toposort_no_raise(d, dependencies, o) ==
    LET st == _toposort(IterSet(DOMAIN d, o), dependencies, o)
    IN [raised |-> FALSE, ordered |-> st.ordered, cycle |-> st.cycle]

\* toposort(dsk, dependencies): [raised, ordered]
toposort(d, dependencies, o) ==
    LET st == _toposort(IterSet(DOMAIN d, o), dependencies, o)
    IN [raised |-> st.cycle # <<>>, ordered |-> st.ordered, cycle |-> st.cycle]

\* getcycle without the loop of line 332: only the first key is traversed.
getcycle_first_key(d, ks, o) == _toposort(<<ks[1]>>, all_dependencies(d), o).cycle

\* getcycle(d, keys): keys is a list of keys
getcycle(d, ks, o) == _toposort(ks, all_dependencies(d), o).cycle

isdag(d, ks, o) == getcycle(d, ks, o) = <<>>

-----------------------------------------------------------------------------
(* task.py: _execute_task, get; optimization.py: SubgraphCallable *)

\* SubgraphCallable(dsk, outkey, inkeys): c.xs = <<outkey, inkeys, items of dsk>>
SubgraphCallable(d, outkey, inkeys) ==
    Val("sgc", "subgraph_callable", 0,
        <<Str(outkey),
          Tup([i \in DOMAIN inkeys |-> Str(inkeys[i])]),
          Lst([i \in 1..Cardinality(DOMAIN d) |->
                 LET k == SetToSeq(DOMAIN d)[i] IN Val("item", k, 0, <<d[k]>>)])>>)

sgc_outkey(c) == c.xs[1].s

sgc_inkeys(c) == [i \in DOMAIN c.xs[2].xs |-> c.xs[2].xs[i].s]

sgc_dsk(c) ==
    LET items == c.xs[3].xs
    IN [k \in {items[i].s : i \in DOMAIN items} |->
          (CHOOSE it \in Range(items) : it.s = k).xs[1]]

FirstRaised(xs) ==
    LET bad == SelectSeq(xs, IsRaised) IN IF bad = <<>> THEN <<>> ELSE <<bad[1]>>

RECURSIVE _execute_task(_, _)
RECURSIVE get_fill(_, _, _)
RECURSIVE get(_, _, _, _)

\* Lines 135-138 of get: fill the cache in sorted order.
get_fill(d, sortkeys, cache) ==
    IF sortkeys = <<>> THEN cache
    ELSE get_fill(d, Tail(sortkeys),
                  Put(cache, Head(sortkeys), _execute_task(d[Head(sortkeys)], cache)))

\* get(dsk, out, cache) for a single key out: the value, or what was raised
get(d, out, cache, o) ==
    IF out \notin DOMAIN d THEN Raised("KeyError")
    ELSE LET ts == toposort(d, all_dependencies(d), o) IN
         IF ts.raised THEN Raised("RuntimeError")
         ELSE LET full == get_fill(d, ts.ordered, cache)
                  bad == {k \in DOMAIN full : IsRaised(full[k])}
              IN IF bad # {} THEN full[CHOOSE k \in bad : TRUE]
                 ELSE _execute_task(Str(out), full)

\* SubgraphCallable.__call__ without the cache of line 907: the arguments are dropped.
SubgraphCallable_call_nocache(c, args) ==
    IF Len(args) # Len(sgc_inkeys(c)) THEN Raised("ValueError")
    ELSE get(sgc_dsk(c), sgc_outkey(c), EmptyMap, <<>>)

\* SubgraphCallable.__call__(*args)
SubgraphCallable_call(c, args) ==
    LET inkeys == sgc_inkeys(c) IN
    IF Len(args) # Len(inkeys) THEN Raised("ValueError")
    ELSE get(sgc_dsk(c), sgc_outkey(c),
             [k \in Range(inkeys) |->
                 args[CHOOSE i \in DOMAIN inkeys :
                        inkeys[i] = k /\ \A j \in DOMAIN inkeys : inkeys[j] = k => j <= i]],
             <<>>)

_execute_task(arg, cache) ==
    IF arg.tag = "list"
    THEN LET rs == [i \in DOMAIN arg.xs |-> _execute_task(arg.xs[i], cache)]
         IN IF FirstRaised(rs) # <<>> THEN FirstRaised(rs)[1] ELSE Lst(rs)
    ELSE IF istask(arg)
    THEN LET func == arg.xs[1]
             args == [i \in 1..(Len(arg.xs) - 1) |-> _execute_task(arg.xs[i + 1], cache)]
         IN IF FirstRaised(args) # <<>> THEN FirstRaised(args)[1]
            ELSE IF func.tag = "sgc" THEN SubgraphCallable_call(func, args)
            ELSE App(func.s, args)
    ELSE IF ~ishashable(arg) THEN arg
    ELSE IF arg.tag = "str" /\ arg.s \in DOMAIN cache THEN cache[arg.s]
    ELSE arg

\* get(dsk, k) with the default cache
evaluate(d, k) == get(d, k, EmptyMap, <<>>)

-----------------------------------------------------------------------------
(* optimization.py: cull *)

\* cull_deps without lines 51-54: no dependency joins the work-list.
cull_deps_none(ds, st) == st

\* Lines 51-54: the dependencies of one key join the next work-list once.
RECURSIVE cull_deps(_, _)
cull_deps(ds, st) ==
    IF ds = <<>> THEN st
    ELSE cull_deps(Tail(ds),
            IF Head(ds) \notin st.seen
            THEN [st EXCEPT !.seen = @ \cup {Head(ds)}, !.new_work = Append(@, Head(ds))]
            ELSE st)

\* Lines 47-54: one pass over the work-list.
RECURSIVE cull_pass(_, _, _)
cull_pass(d, work, st) ==
    IF work = <<>> THEN st
    ELSE LET k == Head(work)
             dependencies_k == get_dependencies_list(d, d[k])
         IN cull_pass(d, Tail(work),
                cull_deps(dependencies_k,
                    [st EXCEPT !.out = Put(@, k, d[k]),
                               !.dependencies = Put(@, k, dependencies_k)]))

\* Lines 45-56: the `while work` loop.
RECURSIVE cull_loop(_, _, _)
cull_loop(d, work, st) ==
    IF work = <<>> THEN st
    ELSE LET st2 == cull_pass(d, work, [st EXCEPT !.new_work = <<>>])
         IN cull_loop(d, st2.new_work, st2)

\* cull(dsk, keys): [out, dependencies]
cull(d, ks, o) ==
    LET st == cull_loop(d, IterSet(ks, o),
                 [seen |-> {}, dependencies |-> EmptyMap, out |-> EmptyMap,
                  new_work |-> <<>>])
    IN [out |-> st.out, dependencies |-> st.dependencies]

-----------------------------------------------------------------------------
(* optimization.py: inline, inline_functions, functions_of *)

\* Lines 246-254: the keys that are inlined.
inline_keys(d, ks, inline_constants, dependencies) ==
    ks \cup (IF inline_constants
             THEN {k \in DOMAIN d : InDsk(d, d[k])
                                    \/ (dependencies[k] = {} /\ ~istask(d[k]))}
             ELSE {})

\* Lines 262-264 and 271-272: substitute the inlined dependencies one after another.
RECURSIVE inline_subs(_, _, _, _)
inline_subs(val, ds, keysubs, d) ==
    IF ds = <<>> THEN val
    ELSE inline_subs(subs(val, Str(Head(ds)),
                          IF Head(ds) \in DOMAIN keysubs THEN keysubs[Head(ds)]
                          ELSE d[Head(ds)]),
                     Tail(ds), keysubs, d)

\* Lines 260-265: the substituted values in replace order.
RECURSIVE inline_keysubs(_, _, _, _, _, _)
inline_keysubs(d, replaceorder, ks, dependencies, o, keysubs) ==
    IF replaceorder = <<>> THEN keysubs
    ELSE LET key == Head(replaceorder)
         IN inline_keysubs(d, Tail(replaceorder), ks, dependencies, o,
                Put(keysubs, key,
                    inline_subs(d[key], IterSet(ks \cap dependencies[key], o), keysubs, d)))

\* inline(dsk, keys, inline_constants, dependencies): the new graph
inline(d, ks0, inline_constants, dependencies, o) ==
    LET ks == inline_keys(d, ks0, inline_constants, dependencies)
        replaceorder == _toposort(IterSet(ks \cap DOMAIN d, o), dependencies, o).ordered
        keysubs == inline_keysubs(d, replaceorder, ks, dependencies, o, EmptyMap)
    IN [key \in DOMAIN d |->
          IF key \in DOMAIN keysubs THEN keysubs[key]
          ELSE inline_subs(d[key], IterSet(ks \cap dependencies[key], o), keysubs, d)]

RECURSIVE fo_work(_, _)
fo_work(work, funcs) ==
    IF work = <<>> THEN funcs
    ELSE LET seqs == SelectSeq(work, LAMBDA t : t.tag \in {"list", "tuple"})
             new_work == Concat([i \in DOMAIN seqs |->
                                   IF istask(seqs[i]) THEN Tail(seqs[i].xs) ELSE seqs[i].xs])
             found == {seqs[i].xs[1] : i \in {j \in DOMAIN seqs : istask(seqs[j])}}
         IN fo_work(new_work, funcs \cup found)

\* functions_of(task): the set of callables heading a task inside task
functions_of(task) == fo_work(<<task>>, {})

\* Line 321: the keys inline_functions inlines and deletes.
inline_functions_keys(d, output, fast_functions, dependencies) ==
    LET dependents == reverse_dict(dependencies)
    IN {k \in DOMAIN d : /\ istask(d[k])
                         /\ dependents[k] # {}
                         /\ k \notin output
                         /\ functions_of(d[k]) \subseteq fast_functions}

\* inline_functions(dsk, output, fast_functions, inline_constants): the new graph
inline_functions(d, output, fast_functions, inline_constants, o) ==
    IF fast_functions = {} THEN d
    ELSE LET dependencies == all_dependencies(d)
             ks == inline_functions_keys(d, output, fast_functions, dependencies)
         IN IF ks = {} THEN d
            ELSE LET d2 == inline(d, ks, inline_constants, dependencies, o)
                 IN [k \in (DOMAIN d2) \ ks |-> d2[k]]

-----------------------------------------------------------------------------
(* Key renamers *)

\* key_split of flash.core.serve.dag.utils: the part of a key before its
\* first "-", "#" or numeric suffix.  Keys that have no such suffix are
\* returned whole; the keys of the graphs of this model are of that kind.
key_split(k) == k

RECURSIVE Join(_)
Join(names) ==
    IF Len(names) = 0 THEN ""
    ELSE IF Len(names) = 1 THEN names[1]
    ELSE names[1] \o "-" \o Join(Tail(names))

\* default_fused_linear_keys_renamer(keys), for string keys
default_fused_linear_keys_renamer(ks) ==
    LET rest == [i \in 1..(Len(ks) - 1) |-> key_split(ks[Len(ks) + 1 - i])]
    IN Join(Append(rest, ks[1]))

-----------------------------------------------------------------------------
(* optimization.py: fuse_linear *)

\* child2parent is a Python dict: a sequence of <<child, parent>> in insertion order.
c2p_has(c2p, k) == \E i \in DOMAIN c2p : c2p[i][1] = k

c2p_get(c2p, k) == c2p[CHOOSE i \in DOMAIN c2p : c2p[i][1] = k][2]

c2p_del(c2p, k) == SelectSeq(c2p, LAMBDA e : e[1] # k)

\* Lines 133-142 (and 809-818): classify the dependencies of one parent.
RECURSIVE chain_children(_, _, _, _, _, _)
chain_children(st, par, ds, has_many_children, keys_none, ks) ==
    IF ds = <<>> THEN st
    ELSE LET child == Head(ds)
             st2 == IF ~keys_none /\ child \in ks
                    THEN [st EXCEPT !.unfusible = @ \cup {child}]
                    ELSE IF c2p_has(st.child2parent, child)
                    THEN [st EXCEPT !.child2parent = c2p_del(@, child),
                                    !.unfusible = @ \cup {child}]
                    ELSE IF has_many_children
                    THEN [st EXCEPT !.unfusible = @ \cup {child}]
                    ELSE IF child \notin st.unfusible
                    THEN [st EXCEPT !.child2parent = Append(@, <<child, par>>)]
                    ELSE st
         IN chain_children(st2, par, Tail(ds), has_many_children, keys_none, ks)

\* Lines 130-142 (and 806-818): the `for parent in dsk` loop; dependencies maps
\* each key to the sequence of its dependencies.
RECURSIVE chain_parents(_, _, _, _, _)
chain_parents(st, parents, dependencies, keys_none, ks) ==
    IF parents = <<>> THEN st
    ELSE LET ds == dependencies[Head(parents)]
         IN chain_parents(
                chain_children(st, Head(parents), ds, Len(ds) > 1, keys_none, ks),
                Tail(parents), dependencies, keys_none, ks)

\* Lines 150-153: extend the chain towards the ancestors.
RECURSIVE chain_up(_)
chain_up(st) ==
    IF c2p_has(st.child2parent, st.parent)
    THEN LET p == c2p_get(st.child2parent, st.parent)
         IN chain_up([child2parent |-> c2p_del(st.child2parent, st.parent),
                      parent2child |-> Del(st.parent2child, p),
                      chain |-> Append(st.chain, p),
                      parent |-> p])
    ELSE st

\* Lines 155-158: extend the chain towards the descendants.
RECURSIVE chain_down(_)
chain_down(st) ==
    IF st.child \in DOMAIN st.parent2child
    THEN LET c == st.parent2child[st.child]
         IN chain_down([child2parent |-> c2p_del(st.child2parent, c),
                        parent2child |-> Del(st.parent2child, st.child),
                        chain |-> Append(st.chain, c),
                        child |-> c])
    ELSE st

\* Lines 147-159: the chains, each from its top-most key to its deepest key.
RECURSIVE chain_build(_, _, _)
chain_build(child2parent, parent2child, chains) ==
    IF child2parent = <<>> THEN chains
    ELSE LET child == Last(child2parent)[1]
             par == Last(child2parent)[2]
             up == chain_up([child2parent |-> Front(child2parent),
                             parent2child |-> parent2child,
                             chain |-> <<child, par>>,
                             parent |-> par])
             down == chain_down([child2parent |-> up.child2parent,
                                 parent2child |-> up.parent2child,
                                 chain |-> Reverse(up.chain),
                                 child |-> child])
         IN chain_build(down.child2parent, down.parent2child, Append(chains, down.chain))

\* linear_chains without lines 134-135: the protected keys join the chains.
linear_chains_unprotected(parents, dependencies, keys_none, ks) ==
    Bind(chain_parents([child2parent |-> <<>>, unfusible |-> {}],
                       parents, dependencies, TRUE, ks).child2parent,
         LAMBDA c2p :
            chain_build(c2p,
                [p \in {c2p[i][2] : i \in DOMAIN c2p} |->
                    c2p[CHOOSE i \in DOMAIN c2p :
                          c2p[i][2] = p
                          /\ \A j \in DOMAIN c2p : c2p[j][2] = p => j <= i][1]],
                <<>>))

\* Lines 128-159: all linear chains of the graph.
linear_chains(parents, dependencies, keys_none, ks) ==
    Bind(chain_parents([child2parent |-> <<>>, unfusible |-> {}],
                       parents, dependencies, keys_none, ks).child2parent,
         LAMBDA c2p :
            chain_build(c2p,
                [p \in {c2p[i][2] : i \in DOMAIN c2p} |->
                    c2p[CHOOSE i \in DOMAIN c2p :
                          c2p[i][2] = p
                          /\ \A j \in DOMAIN c2p : c2p[j][2] = p => j <= i][1]],
                <<>>))

\* Lines 181-187: substitute the chain's values into each other, deepest first.
RECURSIVE fl_collapse(_, _, _)
fl_collapse(d, chain, st) ==
    IF chain = <<>> THEN st
    ELSE LET par == Last(chain)
             child == st.child
             dp == (st.dependencies[par] \cup st.dependencies[child]) \ {child}
         IN fl_collapse(d, Front(chain),
                [st EXCEPT !.dependencies = Put(Del(@, child), par, dp),
                           !.val = subs(d[par], Str(child), st.val),
                           !.fused = @ \cup {child},
                           !.child = par])

\* fl_store without the test of line 178: every chain is stored under its new key.
fl_store_always(d, new_key, rename, c, st) ==
    LET child == c.child
    IN IF rename
       THEN [rv |-> Put(Put(st.rv, new_key, c.val), child, Str(new_key)),
             dependencies |-> Put(Put(c.dependencies, new_key, c.dependencies[child]),
                                  child, {new_key}),
             fused |-> c.fused \cup {child},
             aliases |-> st.aliases \cup {child},
             is_renamed |-> TRUE]
       ELSE [rv |-> Put(st.rv, child, c.val),
             dependencies |-> c.dependencies,
             fused |-> c.fused \cup {child},
             aliases |-> st.aliases,
             is_renamed |-> FALSE]

\* Lines 188-196: store the fused value c.val of a chain whose top is c.child.
fl_store(d, new_key, rename, c, st) ==
    LET is_renamed == IF rename
                      THEN new_key \notin DOMAIN d /\ new_key \notin DOMAIN st.rv
                      ELSE st.is_renamed
        child == c.child
    IN IF is_renamed
       THEN [rv |-> Put(Put(st.rv, new_key, c.val), child, Str(new_key)),
             dependencies |-> Put(Put(c.dependencies, new_key, c.dependencies[child]),
                                  child, {new_key}),
             fused |-> c.fused \cup {child},
             aliases |-> st.aliases \cup {child},
             is_renamed |-> is_renamed]
       ELSE [rv |-> Put(st.rv, child, c.val),
             dependencies |-> c.dependencies,
             fused |-> c.fused \cup {child},
             aliases |-> st.aliases,
             is_renamed |-> is_renamed]

\* Lines 168-173 and 177: the renamer fuse_linear calls with a chain.  rename_keys
\* is False ("none"), True ("default") or a callable of the caller: "const"
\* is lambda keys: "z", "first" is lambda keys: keys[0].
linear_key_renamer(rename, chain) ==
    CASE rename = "default" -> default_fused_linear_keys_renamer(chain)
      [] rename = "const" -> "z"
      [] rename = "first" -> chain[1]
      [] OTHER -> ""

\* Lines 176-196: fuse one chain.
fl_chain(d, chain, rename, st0) ==
    Bind(st0, LAMBDA st :
        Bind(fl_collapse(d, Front(chain),
                 [dependencies |-> st.dependencies, val |-> d[Last(chain)],
                  fused |-> st.fused, child |-> Last(chain)]),
             LAMBDA c :
                fl_store(d, linear_key_renamer(rename, chain), rename # "none", c, st)))

RECURSIVE fl_chains(_, _, _, _)
fl_chains(d, chains, rename, st) ==
    IF chains = <<>> THEN st
    ELSE fl_chains(d, Tail(chains), rename, fl_chain(d, Head(chains), rename, st))

\* Lines 202-206: rewrite the references of one key to renamed chain tops.
RECURSIVE fl_alias_key(_, _, _)
fl_alias_key(key, olds, st) ==
    IF olds = <<>> THEN st
    ELSE LET old_key == Head(olds)
             new_key == st.rv[old_key]
         IN fl_alias_key(key, Tail(olds),
                [st EXCEPT !.dependencies[key] = (@ \ {old_key}) \cup {new_key.s},
                           !.rv[key] = subs(@, Str(old_key), new_key)])

\* Lines 201-206: the `for key, deps in dependencies.items()` loop.
RECURSIVE fl_alias(_, _, _)
fl_alias(ks, o, st) ==
    IF ks = <<>> THEN st
    ELSE fl_alias(Tail(ks), o,
             fl_alias_key(Head(ks),
                          IterSet(st.dependencies[Head(ks)] \cap st.aliases, o), st))

\* Lines 197-199: the keys that were not fused are copied.
fl_copy(d, st) ==
    [st EXCEPT !.rv = [k \in (DOMAIN st.rv) \cup ((DOMAIN d) \ st.fused) |->
                          IF k \in DOMAIN st.rv THEN st.rv[k] ELSE d[k]]]

\* Lines 200-210: rewrite the references to aliases, delete the unprotected aliases.
fl_finish(keys_none, ks, o, st) ==
    IF st.aliases = {} THEN [rv |-> st.rv, dependencies |-> st.dependencies]
    ELSE Bind(fl_alias(IterSet(DOMAIN st.dependencies, o), o, st),
              LAMBDA st3 :
                 LET gone == IF keys_none THEN {} ELSE st3.aliases \ ks
                 IN [rv |-> [k \in (DOMAIN st3.rv) \ gone |-> st3.rv[k]],
                     dependencies |-> [k \in (DOMAIN st3.dependencies) \ gone |->
                                         st3.dependencies[k]]])

\* fuse_linear(dsk, keys, rename_keys=rename): [rv, dependencies]
fuse_linear(d, keys_none, ks, rename, o) ==
    Bind(all_dependencies_list(d), LAMBDA dependencies :
        Bind(linear_chains(IterSet(DOMAIN d, o), dependencies, keys_none, ks),
             LAMBDA chains :
                Bind(fl_copy(d, fl_chains(d, chains, rename,
                                [rv |-> EmptyMap,
                                 dependencies |-> [k \in DOMAIN d |-> Range(dependencies[k])],
                                 fused |-> {}, aliases |-> {}, is_renamed |-> FALSE])),
                     LAMBDA st2 : fl_finish(keys_none, ks, o, st2))))

-----------------------------------------------------------------------------
(* optimization.py: fuse -- parameters, renamer, subgraph post-pass *)

\* Lines 489 and 493: 1.5 + ave_width * log(ave_width + 1), in thousandths.
default_max_height(ave_width) ==
    CASE ave_width = 1 -> 2193
      [] ave_width = 2 -> 3697
      [] ave_width = 3 -> 5658
      [] ave_width = 4 -> 7937
      [] ave_width = 5 -> 10458
      [] OTHER -> 1500 + 2000 * ave_width

\* Line 491: ave_width * 1.5, in thousandths.
default_max_depth_new_edges(ave_width) == 1500 * ave_width

\* sorted(names): the keys of this model in alphabetical order
Alphabet == <<"a", "b", "c", "d", "e", "f">>

\* default_fused_keys_renamer(keys), for string keys shorter than the length limit
default_fused_keys_renamer(ks) ==
    LET first_key == Last(ks)
        first_name == key_split(first_key)
        names == {key_split(ks[i]) : i \in 1..(Len(ks) - 1)} \ {first_name}
    IN Join(Append(IterSet(names, Alphabet), first_key))

\* fused_trees is a Python dict: a sequence of <<root, fused keys>> in insertion order.
ft_has(ft, k) == \E i \in DOMAIN ft : ft[i][1] = k

ft_get(ft, k) == ft[CHOOSE i \in DOMAIN ft : ft[i][1] = k][2]

ft_pop(ft, k) == SelectSeq(ft, LAMBDA e : e[1] # k)

ft_set(ft, k, v) ==
    IF ft_has(ft, k)
    THEN [i \in DOMAIN ft |-> IF ft[i][1] = k THEN <<k, v>> ELSE ft[i]]
    ELSE Append(ft, <<k, v>>)

\* has_two_tasks with the test of line 840 passed by a single task.
has_one_task(d, chain) ==
    Cardinality({i \in DOMAIN chain : istask(d[chain[i]])}) > 0

\* Lines 836-841: the chain holds at least two tasks.
has_two_tasks(d, chain) ==
    Cardinality({i \in DOMAIN chain : istask(d[chain[i]])}) > 1

\* Lines 860-867: the keys fused under the chain, for renaming.
RECURSIVE sg_chain2(_, _, _)
sg_chain2(chain, ft, chain2) ==
    IF chain = <<>> THEN [fused_trees |-> ft, chain2 |-> chain2]
    ELSE LET k == Head(chain)
         IN IF ft_has(ft, k) /\ ft_get(ft, k) # <<>>
            THEN sg_chain2(Tail(chain), ft_pop(ft, k), chain2 \o ft_get(ft, k))
            ELSE sg_chain2(Tail(chain), ft_pop(ft, k), Append(chain2, k))

\* Lines 845-867: wrap one chain into a SubgraphCallable.
sg_chain(st, chain, rename, o) ==
    LET subgraph == [k \in Range(chain) |-> st.dsk[k]]
        outkey == chain[1]
        inkeys_set == st.dependencies[Last(chain)]
        gone == Range(Tail(chain))
        inkeys == IterSet(inkeys_set, o)
        task == Tup(<<SubgraphCallable(subgraph, outkey, inkeys)>>
                    \o [i \in DOMAIN inkeys |-> Str(inkeys[i])])
        c2 == sg_chain2(chain, st.fused_trees, <<>>)
    IN [dsk |-> [k \in (DOMAIN st.dsk) \ gone |-> IF k = outkey THEN task ELSE st.dsk[k]],
        dependencies |-> [k \in (DOMAIN st.dependencies) \ gone |->
                             IF k = outkey THEN inkeys_set ELSE st.dependencies[k]],
        fused_trees |-> IF rename THEN ft_set(c2.fused_trees, outkey, c2.chain2)
                        ELSE st.fused_trees]

RECURSIVE sg_chains(_, _, _, _)
sg_chains(st, chains, rename, o) ==
    IF chains = <<>> THEN st
    ELSE sg_chains(sg_chain(st, Head(chains), rename, o), Tail(chains), rename, o)

\* _inplace_fuse_subgraphs(dsk, keys, dependencies, fused_trees, rename_keys):
\* the three structures after the in-place update
_inplace_fuse_subgraphs(d, keys_none, ks, dependencies, ft, rename, o) ==
    LET all == linear_chains(IterSet(DOMAIN d, o),
                             [k \in DOMAIN dependencies |-> IterSet(dependencies[k], o)],
                             keys_none, ks)
        chains == SelectSeq(all, LAMBDA c : has_two_tasks(d, c))
    IN sg_chains([dsk |-> d, dependencies |-> dependencies, fused_trees |-> ft],
                 chains, rename, o)

\* fuse_rename without lines 794 and 796: the root is not made an alias.
RECURSIVE fuse_rename_no_alias(_, _)
fuse_rename_no_alias(ft, st) ==
    IF ft = <<>> THEN st
    ELSE LET root_key == Head(ft)[1]
             alias == default_fused_keys_renamer(Head(ft)[2])
         IN fuse_rename_no_alias(Tail(ft),
                IF alias \notin DOMAIN st.rv
                THEN [rv |-> Put(st.rv, alias, st.rv[root_key]),
                      deps |-> Put(st.deps, alias, st.deps[root_key])]
                ELSE st)

\* Lines 790-796: rename the roots of the fused trees.
RECURSIVE fuse_rename(_, _)
fuse_rename(ft, st) ==
    IF ft = <<>> THEN st
    ELSE LET root_key == Head(ft)[1]
             alias == default_fused_keys_renamer(Head(ft)[2])
         IN fuse_rename(Tail(ft),
                IF alias \notin DOMAIN st.rv
                THEN [rv |-> Put(Put(st.rv, alias, st.rv[root_key]), root_key, Str(alias)),
                      deps |-> Put(Put(st.deps, alias, st.deps[root_key]), root_key, {alias})]
                ELSE st)

-----------------------------------------------------------------------------
(* optimization.py: fuse -- the traversal, one loop iteration per step *)

\* Lines 510-516: rdeps[v], the dependents of v, one entry per reference to v.
rdeps_of(d, o, v) ==
    LET dl == all_dependencies_list(d)
        ks == IterSet(DOMAIN d, o)
    IN Concat([i \in DOMAIN ks |->
                 [j \in 1..Len(SelectSeq(dl[ks[i]], LAMBDA x : x = v)) |-> ks[i]]])

\* fuse_reducible without lines 520-521: the protected keys are not taken out.
fuse_reducible_unprotected(d, keys_none, ks, o) ==
    LET dl == all_dependencies_list(d)
        referenced == UNION {Range(dl[k]) : k \in DOMAIN d}
    IN {k \in referenced :
          /\ Len(rdeps_of(d, o, k)) = 1
          /\ d[k].tag \in {"tuple", "int", "str"}}

\* Lines 519-525: the keys that may be fused into their only dependent.
fuse_reducible(d, keys_none, ks, o) ==
    LET dl == all_dependencies_list(d)
        referenced == UNION {Range(dl[k]) : k \in DOMAIN d}
    IN {k \in referenced :
          /\ Len(rdeps_of(d, o, k)) = 1
          /\ (keys_none \/ k \notin ks)
          /\ d[k].tag \in {"tuple", "int", "str"}}

\* Line 527: nothing for the subgraph post-pass to do.
no_single_dependent(d, o) ==
    LET dl == all_dependencies_list(d)
        referenced == UNION {Range(dl[k]) : k \in DOMAIN d}
    IN \A v \in referenced : Cardinality(Range(rdeps_of(d, o, v))) # 1

\* Lines 551-553: go to the top of the reducible chain.
RECURSIVE fuse_top(_, _, _, _)
fuse_top(p, red, d, o) ==
    IF p \in red THEN fuse_top(rdeps_of(d, o, p)[1], red, d, o) ELSE p

Info(key, task, ks, height, width, num_nodes, fudge, edges) ==
    [key |-> key, task |-> task, keys |-> ks, height |-> height, width |-> width,
     num_nodes |-> num_nodes, fudge |-> fudge, edges |-> edges]

\* Lines 602-603 and 711-712: fudge is at most the number of child edges - 1.
clamp_fudge(fudge, num_children_edges) ==
    IF fudge > num_children_edges - 1 /\ num_children_edges - 1 >= 0
    THEN num_children_edges - 1
    ELSE fudge

\* Lines 659-660 and 765-766: fudge is at most int(ave_width - 1).
clamp_stub_fudge(fudge, ave_width) ==
    IF fudge > ave_width - 1 THEN ave_width - 1 ELSE fudge

\* single_metrics with lines 602-603 after lines 606-607: fudge is incremented
\* first and clamped afterwards.
single_metrics_increment_first(info, deps_parent, red) ==
    LET edges0 == deps_parent \ red
        num_children_edges == Cardinality(info.edges)
        edges == edges0 \cup info.edges
        no_new_edges == Cardinality(edges) = num_children_edges
    IN [edges |-> edges, no_new_edges |-> no_new_edges,
        fudge |-> clamp_fudge(IF no_new_edges THEN info.fudge ELSE info.fudge + 1,
                              num_children_edges),
        height |-> info.height, width |-> info.width, num_nodes |-> info.num_nodes]

\* Lines 584-608: the metrics of a parent with one reducible child.
single_metrics(info, deps_parent, red) ==
    LET edges0 == deps_parent \ red
        num_children_edges == Cardinality(info.edges)
        edges == edges0 \cup info.edges
        no_new_edges == Cardinality(edges) = num_children_edges
        fudge0 == clamp_fudge(info.fudge, num_children_edges)
    IN [edges |-> edges, no_new_edges |-> no_new_edges,
        fudge |-> IF no_new_edges THEN fudge0 ELSE fudge0 + 1,
        height |-> info.height, width |-> info.width, num_nodes |-> info.num_nodes]

\* single_accept with the test of line 610 always failing.
single_accept_never(m, o) == FALSE

\* Line 610: the merge of a single child is accepted.
single_accept(m, o) ==
    /\ m.num_nodes + m.fudge <= o.ave_width * m.height
    /\ (m.no_new_edges \/ m.height * 1000 < o.max_depth_new_edges)

Max(S) == CHOOSE x \in S : \A y \in S : y <= x

Min(S) == CHOOSE x \in S : \A y \in S : x <= y

RECURSIVE Sum(_)
Sum(xs) == IF xs = <<>> THEN 0 ELSE Head(xs) + Sum(Tail(xs))

\* Lines 677-716: the metrics of a parent with several reducible children.
multi_metrics(children_info, deps_parent, red) ==
    LET n == Len(children_info)
        edges0 == deps_parent \ red
        tall == {children_info[i].height : i \in DOMAIN children_info} \ {1}
        height == IF tall = {} THEN 1 ELSE Max(tall)
        children_edges == UNION {children_info[i].edges : i \in DOMAIN children_info}
        max_num_edges == Max({0} \cup {Cardinality(children_info[i].edges) :
                                          i \in DOMAIN children_info})
        num_children_edges == Cardinality(children_edges)
        fudge0 == Sum([i \in DOMAIN children_info |-> children_info[i].fudge])
                  + Min({n - 1, Max({0, num_children_edges - max_num_edges})})
        fudge1 == clamp_fudge(fudge0, num_children_edges)
        edges == edges0 \cup children_edges
        no_new_edges == Cardinality(edges) = num_children_edges
    IN [edges |-> edges, no_new_edges |-> no_new_edges,
        fudge |-> IF no_new_edges THEN fudge1 ELSE fudge1 + 1,
        height |-> height,
        width |-> Sum([i \in DOMAIN children_info |-> children_info[i].width]),
        num_nodes |-> Sum([i \in DOMAIN children_info |-> children_info[i].num_nodes]),
        num_single_nodes |-> Cardinality({i \in DOMAIN children_info :
                                            children_info[i].height = 1})]

\* multi_accept without the test width <= max_width of line 718.
multi_accept_any_width(m, o) ==
    /\ m.num_nodes + m.fudge <= o.ave_width * m.height
    /\ m.num_single_nodes <= o.ave_width
    /\ m.height * 1000 <= o.max_height
    /\ (m.no_new_edges \/ m.height * 1000 < o.max_depth_new_edges)

\* Lines 718-720: the merge of several children is accepted.
multi_accept(m, o) ==
    /\ m.num_nodes + m.fudge <= o.ave_width * m.height
    /\ m.num_single_nodes <= o.ave_width
    /\ m.width <= o.max_width
    /\ m.height * 1000 <= o.max_height
    /\ (m.no_new_edges \/ m.height * 1000 < o.max_depth_new_edges)

\* Lines 724-732: substitute the children into the parent's value, in stack order.
RECURSIVE multi_subs(_, _)
multi_subs(val, children_info) ==
    IF children_info = <<>> THEN val
    ELSE multi_subs(subs(val, Str(Head(children_info).key), Head(children_info).task),
                    Tail(children_info))

DelAll(f, ks) == [x \in (DOMAIN f) \ ks |-> f[x]]

ft_pop_all(ft, ks) == SelectSeq(ft, LAMBDA e : e[1] \notin ks)

-----------------------------------------------------------------------------
(* The graphs and arguments the calls are made with *)

MaxAveWidth == 2

MaxProtected == 1

\* The values a key may be bound to when the keys of E are defined before it
\* and m is the latest of them: a number, a task on one or two earlier keys
\* (one key may be referenced twice), an alias of m, a list holding m, a task
\* on a dict holding m.
AddPairs(E) ==
    {<<x, y>> \in E \X E :
        \E i, j \in DOMAIN Alphabet : i <= j /\ Alphabet[i] = x /\ Alphabet[j] = y}

Refs(E, m) ==
    {Task("inc", <<Str(e)>>) : e \in E}
    \cup {Task("add", <<Str(p[1]), Str(p[2])>>) : p \in AddPairs(E)}
    \cup {Str(m), Lst(<<Str(m)>>), Task("inc", <<Dct(<<Str(m)>>)>>)}

Values(E, m) == {Num(1)} \cup Refs(E, m)

\* Acyclic graphs over the keys a, b, c, d: a is a task without dependencies,
\* every other value refers to earlier keys only.
AcyclicGraphs ==
    {[a |-> va, b |-> vb, c |-> vc, d |-> vd] :
        va \in {Task("inc", <<Num(1)>>)},
        vb \in Values({"a"}, "a"),
        vc \in Values({"a", "b"}, "b"),
        vd \in Values({"a", "b", "c"}, "c")}

\* The graphs fuse is called with: those in which d depends on c.
FuseGraphs == {g \in AcyclicGraphs : "c" \in get_dependencies(g, g["d"])}

Orders == {<<"a", "b", "c", "d">>, <<"d", "c", "b", "a">>}

\* max_width=1.0 of the caller, in thousandths: two leaves side by side are too wide.
NarrowWidth == 1000

\* keys=None is keys_none; the heuristics default from ave_width (lines 486-493),
\* and the plain call (no renaming, no subgraphs) with the largest ave_width is
\* also made with max_width=1.0.
FuseOpts ==
    {[keys_none |-> FALSE, rename_keys |-> rk, fuse_subgraphs |-> fs, ave_width |-> aw,
      max_width |-> default_max_height(aw), max_height |-> default_max_height(aw),
      max_depth_new_edges |-> default_max_depth_new_edges(aw)] :
        rk \in BOOLEAN, fs \in BOOLEAN, aw \in 1..MaxAveWidth}
    \cup {[keys_none |-> FALSE, rename_keys |-> FALSE, fuse_subgraphs |-> FALSE,
           ave_width |-> MaxAveWidth, max_width |-> NarrowWidth,
           max_height |-> default_max_height(MaxAveWidth),
           max_depth_new_edges |-> default_max_depth_new_edges(MaxAveWidth)]}

-----------------------------------------------------------------------------
(* fuse as a state machine, and fuse_linear on the same graphs *)

Init ==
    /\ dsk \in FuseGraphs
    /\ keys \in {K \in SUBSET DOMAIN dsk : Cardinality(K) <= MaxProtected}
    /\ opts \in {[o EXCEPT !.keys_none = (keys = {})] : o \in FuseOpts}
    /\ ord = SetToSeq(DOMAIN dsk)
    /\ pc = "start"
    /\ res = <<>>
    /\ rv = EmptyMap
    /\ deps = EmptyMap
    /\ reducible = {}
    /\ info_stack = <<>>
    /\ children_stack = <<>>
    /\ fused_trees = <<>>
    /\ parent = ""

inputs == <<dsk, keys, opts, ord>>

unused == <<rv, deps, reducible, info_stack, children_stack, fused_trees, parent>>

\* Lines 481-530: nothing to fuse; the caller's graph is returned.
FuseQuickReturn ==
    /\ pc = "start"
    /\ fuse_reducible(dsk, opts.keys_none, keys, ord) = {}
    /\ (~opts.fuse_subgraphs \/ no_single_dependent(dsk, ord))
    /\ rv' = dsk
    /\ deps' = all_dependencies(dsk)
    /\ res' = [dsk |-> dsk, dependencies |-> all_dependencies(dsk)]
    /\ pc' = "done"
    /\ UNCHANGED <<inputs, reducible, info_stack, children_stack, fused_trees, parent>>

\* Lines 481-547: set up the working structures.
FuseSetup ==
    /\ pc = "start"
    /\ ~(/\ fuse_reducible(dsk, opts.keys_none, keys, ord) = {}
         /\ (~opts.fuse_subgraphs \/ no_single_dependent(dsk, ord)))
    /\ rv' = dsk
    /\ deps' = all_dependencies(dsk)
    /\ reducible' = fuse_reducible(dsk, opts.keys_none, keys, ord)
    /\ pc' = "outer"
    /\ UNCHANGED <<inputs, res, info_stack, children_stack, fused_trees, parent>>

\* Lines 548-555: pick a reducible key, climb to the top of its region.
RegionStart ==
    /\ pc = "outer"
    /\ reducible # {}
    /\ \E p \in reducible :
         LET top == fuse_top(p, reducible, dsk, ord) IN
         \E cs \in Perms(reducible \cap deps[top]) :
            /\ children_stack' = children_stack \o <<top>> \o cs
            /\ parent' = top
    /\ pc' = "inner"
    /\ UNCHANGED <<inputs, res, rv, deps, reducible, info_stack, fused_trees>>

\* Lines 557-565: the key on top of the stack has reducible children: go deeper.
Descend ==
    /\ pc = "inner"
    /\ LET child == Last(children_stack)
           children == reducible \cap deps[child]
       IN /\ child # parent
          /\ children # {}
          /\ \E cs \in Perms(children) : children_stack' = children_stack \o cs
          /\ parent' = child
    /\ UNCHANGED <<inputs, pc, res, rv, deps, reducible, info_stack, fused_trees>>

\* Lines 566-580: a leaf of the reduction region.
Leaf ==
    /\ pc = "inner"
    /\ LET child == Last(children_stack)
       IN /\ child # parent
          /\ reducible \cap deps[child] = {}
          /\ children_stack' = Front(children_stack)
          /\ info_stack' = Append(info_stack,
                 Info(child, rv[child], IF opts.rename_keys THEN <<child>> ELSE <<>>,
                      1, 1000, 1, 0, deps[child] \ reducible))
    /\ UNCHANGED <<inputs, pc, res, rv, deps, reducible, fused_trees, parent>>

\* Lines 622-652, 740-755 and 783-784: after a merge, hand the parent's info to
\* the level above, or commit the value when the region is finished.
AfterMerge(rv1, info1, val, below) ==
    IF Front(children_stack) # <<>>
    THEN /\ rv' = rv1
         /\ info_stack' = Append(below, info1)
         /\ parent' = rdeps_of(dsk, ord, parent)[1]
         /\ pc' = "inner"
    ELSE /\ rv' = Put(rv1, parent, val)
         /\ info_stack' = below
         /\ parent' = parent
         /\ pc' = "outer"

\* Lines 656-675, 760-784: after a rejected merge, push a stub for the parent.
AfterReject(rv1, width, fudge, edges, below) ==
    /\ rv' = rv1
    /\ IF Front(children_stack) # <<>>
       THEN /\ info_stack' = Append(below,
                   Info(parent, rv1[parent],
                        IF opts.rename_keys THEN <<parent>> ELSE <<>>,
                        1, width, 1, clamp_stub_fudge(fudge, opts.ave_width), edges))
            /\ parent' = rdeps_of(dsk, ord, parent)[1]
            /\ pc' = "inner"
       ELSE /\ info_stack' = below
            /\ parent' = parent
            /\ pc' = "outer"

AtParent == pc = "inner" /\ Last(children_stack) = parent

num_children == Cardinality(deps[parent] \cap reducible)

\* Lines 589-652: one reducible child, merge accepted.
MergeSingleAccept ==
    /\ AtParent
    /\ num_children = 1
    /\ LET info == Last(info_stack)
           m == single_metrics(info, deps[parent], reducible)
           child_keys == Append(info.keys, parent)
       IN /\ single_accept(m, opts)
          /\ deps' = Put(Del(deps, info.key), parent,
                         (deps[parent] \ {info.key}) \cup deps[info.key])
          /\ reducible' = reducible \ {info.key}
          /\ fused_trees' = IF opts.rename_keys
                            THEN ft_pop(ft_set(fused_trees, parent, child_keys), info.key)
                            ELSE fused_trees
          /\ AfterMerge(Del(rv, info.key),
                 Info(parent, subs(dsk[parent], Str(info.key), info.task),
                      IF opts.rename_keys THEN child_keys ELSE <<>>,
                      IF m.no_new_edges THEN m.height ELSE m.height + 1,
                      m.width,
                      IF m.no_new_edges THEN m.num_nodes ELSE m.num_nodes + 1,
                      m.fudge, m.edges),
                 subs(dsk[parent], Str(info.key), info.task),
                 Front(info_stack))
    /\ children_stack' = Front(children_stack)
    /\ UNCHANGED <<inputs, res>>

\* MergeSingleReject without the reducible_remove of line 655.
MergeSingleReject_keep_reducible ==
    /\ AtParent
    /\ num_children = 1
    /\ LET info == Last(info_stack)
           m == single_metrics(info, deps[parent], reducible)
       IN /\ ~single_accept(m, opts)
          /\ reducible' = reducible
          /\ AfterReject(Put(rv, info.key, info.task), m.width, m.fudge, m.edges,
                         Front(info_stack))
    /\ children_stack' = Front(children_stack)
    /\ UNCHANGED <<inputs, res, deps, fused_trees>>

\* Lines 653-675: one reducible child, merge rejected.
MergeSingleReject ==
    /\ AtParent
    /\ num_children = 1
    /\ LET info == Last(info_stack)
           m == single_metrics(info, deps[parent], reducible)
       IN /\ ~single_accept(m, opts)
          /\ reducible' = reducible \ {info.key}
          /\ AfterReject(Put(rv, info.key, info.task), m.width, m.fudge, m.edges,
                         Front(info_stack))
    /\ children_stack' = Front(children_stack)
    /\ UNCHANGED <<inputs, res, deps, fused_trees>>

\* Lines 685-686: the infos of the children, the last num_children of the stack.
top_infos(n) ==
    IF n = 0 \/ n >= Len(info_stack) THEN info_stack
    ELSE SubSeq(info_stack, Len(info_stack) - n + 1, Len(info_stack))

below_infos(n) ==
    IF n = 0 \/ n >= Len(info_stack) THEN <<>>
    ELSE SubSeq(info_stack, 1, Len(info_stack) - n)

\* Lines 676-755: several reducible children, merge accepted.
MergeMultiAccept ==
    /\ AtParent
    /\ num_children # 1
    /\ LET children_info == top_infos(num_children)
           children == deps[parent] \cap reducible
           m == multi_metrics(children_info, deps[parent], reducible)
           cur == {children_info[i].key : i \in DOMAIN children_info}
           child_keys == Append(Concat([i \in DOMAIN children_info |->
                                          children_info[i].keys]), parent)
           val == multi_subs(dsk[parent], children_info)
       IN /\ multi_accept(m, opts)
          /\ deps' = Put(DelAll(deps, cur), parent,
                         (deps[parent] \ children) \cup UNION {deps[c] : c \in cur})
          /\ reducible' = reducible \ cur
          /\ fused_trees' = IF opts.rename_keys
                            THEN ft_set(ft_pop_all(fused_trees, cur), parent, child_keys)
                            ELSE fused_trees
          /\ AfterMerge(DelAll(rv, cur),
                 Info(parent, val, IF opts.rename_keys THEN child_keys ELSE <<>>,
                      m.height + 1, m.width, m.num_nodes + 1, m.fudge, m.edges),
                 val, below_infos(num_children))
    /\ children_stack' = Front(children_stack)
    /\ UNCHANGED <<inputs, res>>

\* Lines 676-720 and 756-782: several reducible children, merge rejected.
MergeMultiReject ==
    /\ AtParent
    /\ num_children # 1
    /\ LET children_info == top_infos(num_children)
           m == multi_metrics(children_info, deps[parent], reducible)
           cur == {children_info[i].key : i \in DOMAIN children_info}
       IN /\ ~multi_accept(m, opts)
          /\ reducible' = reducible \ cur
          /\ AfterReject([k \in (DOMAIN rv) \cup cur |->
                            IF k \in cur
                            THEN (CHOOSE c \in Range(children_info) : c.key = k).task
                            ELSE rv[k]],
                         IF m.width > opts.max_width THEN opts.max_width ELSE m.width,
                         m.fudge, m.edges, below_infos(num_children))
    /\ children_stack' = Front(children_stack)
    /\ UNCHANGED <<inputs, res, deps, fused_trees>>

\* Lines 786-787 with fuse_subgraphs: the subgraph post-pass.
FuseSubgraphs ==
    /\ pc = "outer"
    /\ reducible = {}
    /\ opts.fuse_subgraphs
    /\ \E o \in Orders :
         LET st == _inplace_fuse_subgraphs(rv, opts.keys_none, keys, deps, fused_trees,
                                           opts.rename_keys, o)
         IN /\ rv' = st.dsk
            /\ deps' = st.dependencies
            /\ fused_trees' = st.fused_trees
    /\ pc' = "rename"
    /\ UNCHANGED <<inputs, res, reducible, info_stack, children_stack, parent>>

\* Line 786 without fuse_subgraphs.
FuseNoSubgraphs ==
    /\ pc = "outer"
    /\ reducible = {}
    /\ ~opts.fuse_subgraphs
    /\ pc' = "rename"
    /\ UNCHANGED <<inputs, res, rv, deps, reducible, info_stack, children_stack,
                   fused_trees, parent>>

\* Lines 789-798: rename the fused roots and return.
FuseRename ==
    /\ pc = "rename"
    /\ LET st == IF opts.rename_keys
                 THEN fuse_rename(fused_trees, [rv |-> rv, deps |-> deps])
                 ELSE [rv |-> rv, deps |-> deps]
       IN /\ rv' = st.rv
          /\ deps' = st.deps
          /\ res' = [dsk |-> st.rv, dependencies |-> st.deps]
    /\ pc' = "done"
    /\ UNCHANGED <<inputs, reducible, info_stack, children_stack, fused_trees, parent>>

\* The rename_keys arguments fuse_linear is called with.
LinearRenamers == {"none", "default", "const", "first"}

\* fuse_linear(dsk, keys, rename_keys); keys=None is possible when no key is protected
FuseLinear ==
    /\ pc = "start"
    /\ \E rename \in LinearRenamers : \E keys_none \in {keys = {}, FALSE} :
          LET r == fuse_linear(dsk, keys_none, keys, rename, ord)
          IN res' = [rename_keys |-> rename, keys_none |-> keys_none,
                     dsk |-> r.rv, dependencies |-> r.dependencies]
    /\ pc' = "fuse_linear"
    /\ UNCHANGED <<inputs, unused>>

Next ==
    \/ FuseQuickReturn
    \/ FuseSetup
    \/ RegionStart
    \/ Descend
    \/ Leaf
    \/ MergeSingleAccept
    \/ MergeSingleReject
    \/ MergeMultiAccept
    \/ MergeMultiReject
    \/ FuseSubgraphs
    \/ FuseNoSubgraphs
    \/ FuseRename
    \/ FuseLinear

Spec == Init /\ [][Next]_vars

-----------------------------------------------------------------------------
(* toposort, getcycle, isdag and cull on graphs that may hold cycles *)

MaxTargets == 2

GraphKeys == {"a", "b", "c", "d"}

\* The values of a, b and c: a number, a task on any key, a task on two of a, b, c
\* (one key may be referenced twice).
GraphValues ==
    {Num(1)}
    \cup {Task("inc", <<Str(e)>>) : e \in GraphKeys}
    \cup {Task("add", <<Str(p[1]), Str(p[2])>>) : p \in AddPairs({"a", "b", "c"})}

\* Graphs over the keys a, b, c, d; d is a number or depends on a.
Graphs ==
    {[a |-> va, b |-> vb, c |-> vc, d |-> vd] :
        va \in GraphValues, vb \in GraphValues, vc \in GraphValues,
        vd \in {Num(1), Task("inc", <<Str("a")>>)}}

Targets == {K \in SUBSET GraphKeys : K # {} /\ Cardinality(K) <= MaxTargets}

InitGraph ==
    /\ dsk \in Graphs
    /\ keys \in Targets
    /\ opts = <<>>
    /\ ord \in Orders
    /\ pc = "start"
    /\ res = <<>>
    /\ rv = EmptyMap
    /\ deps = EmptyMap
    /\ reducible = {}
    /\ info_stack = <<>>
    /\ children_stack = <<>>
    /\ fused_trees = <<>>
    /\ parent = ""

\* toposort(dsk)
Toposort ==
    /\ pc = "start"
    /\ res' = toposort(dsk, all_dependencies(dsk), ord)
    /\ pc' = "toposort"
    /\ UNCHANGED <<inputs, unused>>

\* getcycle(dsk, keys), keys a list
Getcycle ==
    /\ pc = "start"
    /\ res' = getcycle(dsk, IterSet(keys, ord), ord)
    /\ pc' = "getcycle"
    /\ UNCHANGED <<inputs, unused>>

\* isdag(dsk, keys), keys a list
Isdag ==
    /\ pc = "start"
    /\ res' = isdag(dsk, IterSet(keys, ord), ord)
    /\ pc' = "isdag"
    /\ UNCHANGED <<inputs, unused>>

\* cull(dsk, keys)
Cull ==
    /\ pc = "start"
    /\ res' = cull(dsk, keys, ord)
    /\ pc' = "cull"
    /\ UNCHANGED <<inputs, unused>>

NextGraph ==
    \/ Toposort
    \/ Getcycle
    \/ Isdag
    \/ Cull

SpecGraph == InitGraph /\ [][NextGraph]_vars

-----------------------------------------------------------------------------
(* inline, inline_functions and fuse_linear on acyclic graphs *)

FastFunctionSets == {{Fun("inc")}, {Fun("add")}, {Fun("inc"), Fun("add")}}

InitOpt ==
    /\ dsk \in AcyclicGraphs
    /\ keys \in {K \in SUBSET DOMAIN dsk : Cardinality(K) <= MaxProtected}
    /\ opts = <<>>
    /\ ord \in Orders
    /\ pc = "start"
    /\ res = <<>>
    /\ rv = EmptyMap
    /\ deps = EmptyMap
    /\ reducible = {}
    /\ info_stack = <<>>
    /\ children_stack = <<>>
    /\ fused_trees = <<>>
    /\ parent = ""

\* inline(dsk, keys, inline_constants); keys is passed as a list or as a set.
\* _flat_set (lines 214-221) copies a list and hands a set back as it is, so
\* that the update of lines 251-254 is made to the caller's set.
Inline ==
    /\ pc = "start"
    /\ \E ic \in BOOLEAN : \E keys_is_set \in BOOLEAN :
          /\ res' = [inline_constants |-> ic, keys_is_set |-> keys_is_set,
                     dsk |-> inline(dsk, keys, ic, all_dependencies(dsk), ord)]
          /\ keys' = IF keys_is_set
                     THEN inline_keys(dsk, keys, ic, all_dependencies(dsk))
                     ELSE keys
    /\ pc' = "inline"
    /\ UNCHANGED <<dsk, opts, ord, unused>>

\* inline_functions(dsk, output=keys, fast_functions, inline_constants)
InlineFunctions ==
    /\ pc = "start"
    /\ \E ff \in FastFunctionSets : \E ic \in BOOLEAN :
          res' = [fast_functions |-> ff, inline_constants |-> ic,
                  dsk |-> inline_functions(dsk, keys, ff, ic, ord)]
    /\ pc' = "inline_functions"
    /\ UNCHANGED <<inputs, unused>>

NextOpt ==
    \/ Inline
    \/ InlineFunctions
    \/ FuseLinear

SpecOpt == InitOpt /\ [][NextOpt]_vars

-----------------------------------------------------------------------------
(* subs on values of every shape *)

\* Values without parts of their own, and the two tuple keys that are equal
\* in Python although their first elements differ in type.
SubsAtoms ==
    {Num(1), Flt(1), Str("x"), Str("y"), Fun("inc"),
     Tup(<<Num(1), Num(2)>>), Tup(<<Flt(1), Num(2)>>)}

SubsKeys == SubsAtoms \ {Str("y")}

\* An atom, or an atom inside a list, a task, a dict or a tuple that is no task.
SubsInner ==
    SubsAtoms
    \cup {Lst(<<x>>) : x \in SubsAtoms}
    \cup {Task("inc", <<x>>) : x \in SubsAtoms}
    \cup {Dct(<<x>>) : x \in SubsAtoms}
    \cup {Tup(<<Str("y"), x>>) : x \in SubsAtoms}

SubsTasks ==
    SubsInner
    \cup {Lst(<<x, y>>) : x \in SubsInner, y \in SubsAtoms}
    \cup {Task("add", <<x, y>>) : x \in SubsInner, y \in SubsAtoms}

\* The replacement may hold the key itself.
SubsVals == {Str("v"), Lst(<<Str("x")>>)}

InitSubs ==
    /\ dsk = EmptyMap
    /\ keys = {}
    /\ opts \in [task : SubsTasks, key : SubsKeys, val : SubsVals]
    /\ ord = <<>>
    /\ pc = "start"
    /\ res = <<>>
    /\ rv = EmptyMap
    /\ deps = EmptyMap
    /\ reducible = {}
    /\ info_stack = <<>>
    /\ children_stack = <<>>
    /\ fused_trees = <<>>
    /\ parent = ""

\* subs(task, key, val)
Subs ==
    /\ pc = "start"
    /\ res' = subs(opts.task, opts.key, opts.val)
    /\ pc' = "subs"
    /\ UNCHANGED <<inputs, unused>>

NextSubs == Subs

SpecSubs == InitSubs /\ [][NextSubs]_vars

-----------------------------------------------------------------------------
(* SubgraphCallable.__eq__ and __hash__ on pairs of instances *)

\* The width of a hash in bits: Py_hash_t, scaled down.
HashBits == 16

\* hash(s) of a string: one number per string, which changes with the seed of
\* the interpreter (PYTHONHASHSEED).
hash_str(s, seed) ==
    LET code == CASE s = "a" -> 97
                  [] s = "b" -> 98
                  [] s = "x" -> 120
                  [] s = "y" -> 121
                  [] s = "subgraph_callable" -> 1153
                  [] OTHER -> 102
    IN (code * (2 * seed + 1) + seed) % (2 ^ HashBits)

\* hash of a tuple whose elements hash to hs: the element hashes are mixed
\* into an accumulator one after the other, then the length is added.
RECURSIVE hash_tuple_acc(_, _)
hash_tuple_acc(hs, acc) ==
    IF hs = <<>> THEN acc
    ELSE hash_tuple_acc(Tail(hs), ((acc + Head(hs) * 7) * 13) % (2 ^ HashBits))

hash_tuple(hs) == (hash_tuple_acc(hs, 2870) + Len(hs)) % (2 ^ HashBits)

\* SubgraphCallable(dsk, outkey, inkeys, name)
SubgraphCallable_named(d, outkey, inkeys, name) ==
    [SubgraphCallable(d, outkey, inkeys) EXCEPT !.s = name]

\* Lines 897-899: SubgraphCallable.__eq__(self, other), both SubgraphCallables.
SubgraphCallable_eq(self, other) ==
    LET is_key == /\ sgc_outkey(self) = sgc_outkey(other)
                  /\ Range(sgc_inkeys(self)) = Range(sgc_inkeys(other))
    IN self.tag = other.tag /\ self.s = other.s /\ is_key

\* Lines 912-913: SubgraphCallable.__hash__(self).
SubgraphCallable_hash(self, seed) ==
    LET inkeys == sgc_inkeys(self)
    IN hash_tuple(<<hash_str(sgc_outkey(self), seed),
                    hash_tuple([i \in DOMAIN inkeys |-> hash_str(inkeys[i], seed)]),
                    hash_str(self.s, seed)>>)

\* The input-key tuples an instance is made with.
SgcInkeys ==
    {<<>>, <<"x">>, <<"y">>, <<"x", "y">>, <<"y", "x">>, <<"x", "x">>}

SgcInstances ==
    {SubgraphCallable_named([k \in {outkey} |-> Task("inc", <<Num(1)>>)], outkey, inkeys, name) :
        outkey \in {"a", "b"}, inkeys \in SgcInkeys, name \in {"subgraph_callable", "f"}}

InitSgc ==
    /\ dsk = EmptyMap
    /\ keys = {}
    /\ opts \in [self : SgcInstances, other : SgcInstances, seed : {0, 1}]
    /\ ord = <<>>
    /\ pc = "start"
    /\ res = <<>>
    /\ rv = EmptyMap
    /\ deps = EmptyMap
    /\ reducible = {}
    /\ info_stack = <<>>
    /\ children_stack = <<>>
    /\ fused_trees = <<>>
    /\ parent = ""

\* self == other, hash(self) and hash(other) in one interpreter
SgcCompare ==
    /\ pc = "start"
    /\ res' = [eq |-> SubgraphCallable_eq(opts.self, opts.other),
               hash_self |-> SubgraphCallable_hash(opts.self, opts.seed),
               hash_other |-> SubgraphCallable_hash(opts.other, opts.seed)]
    /\ pc' = "compared"
    /\ UNCHANGED <<inputs, unused>>

NextSgc == SgcCompare

SpecSgc == InitSgc /\ [][NextSgc]_vars

-----------------------------------------------------------------------------
(* Properties of inline, inline_functions and fuse_linear (specification SpecOpt) *)

\* The keys of G that the value v references: every place where
\* get_dependencies looks for a key (task arguments, list elements, dict values).
References(v) == get_dependencies(dsk, v)

\* A dict occurs in the value v.
RECURSIVE HasDict(_)
HasDict(v) ==
    \/ v.tag = "dict"
    \/ v.tag \in {"tuple", "list"} /\ \E i \in DOMAIN v.xs : HasDict(v.xs[i])

NoDicts == \A k \in DOMAIN dsk : ~HasDict(dsk[k])

\* C2 as stated: after fuse_linear every protected key evaluates as in G, and
\* no value of the result references a key of G that the result does not hold.
C2_AsStated ==
    pc = "fuse_linear" =>
        /\ \A k \in keys : evaluate(res.dsk, k) = evaluate(dsk, k)
        /\ \A k \in DOMAIN res.dsk : References(res.dsk[k]) \subseteq DOMAIN res.dsk

\* C2, evaluation alone: after fuse_linear every protected key evaluates as in G
\* (get does not look for keys inside a dict).
C2_Evaluation ==
    pc = "fuse_linear" => \A k \in keys : evaluate(res.dsk, k) = evaluate(dsk, k)

\* C2 on graphs without dict arguments.
C2_WithoutDicts == NoDicts => C2_AsStated

\* The callables that head a task inside the value v.
RECURSIVE TaskFunctions(_)
TaskFunctions(v) ==
    IF istask(v)
    THEN {v.xs[1]} \cup UNION {TaskFunctions(v.xs[i]) : i \in 2..Len(v.xs)}
    ELSE IF v.tag = "list" THEN UNION {TaskFunctions(v.xs[i]) : i \in DOMAIN v.xs}
    ELSE {}

\* C3 as stated: inline_functions removes only tasks built from fast functions
\* that have a dependent and are not in output; the output keys stay; every
\* remaining key evaluates as in G and references no removed key.
C3_AsStated ==
    pc = "inline_functions" =>
        LET removed == (DOMAIN dsk) \ (DOMAIN res.dsk) IN
        /\ DOMAIN res.dsk \subseteq DOMAIN dsk
        /\ keys \subseteq DOMAIN res.dsk
        /\ \A k \in removed :
              /\ istask(dsk[k])
              /\ TaskFunctions(dsk[k]) \subseteq res.fast_functions
              /\ k \notin keys
              /\ \E j \in DOMAIN dsk : k \in References(dsk[j])
        /\ \A k \in DOMAIN res.dsk :
              /\ evaluate(res.dsk, k) = evaluate(dsk, k)
              /\ References(res.dsk[k]) \cap removed = {}

\* C3, evaluation alone: after inline_functions every remaining key evaluates as in G.
C3_Evaluation ==
    pc = "inline_functions" =>
        \A k \in DOMAIN res.dsk : evaluate(res.dsk, k) = evaluate(dsk, k)

\* C3 on graphs without dict arguments.
C3_WithoutDicts == NoDicts => C3_AsStated

\* The effective inline set: keys, and with inline_constants every alias key and
\* every key that is no task and has no dependencies.
EffectiveInlineSet ==
    keys \cup (IF res.inline_constants
               THEN {k \in DOMAIN dsk :
                        \/ dsk[k].tag = "str" /\ dsk[k].s \in DOMAIN dsk
                        \/ ~istask(dsk[k]) /\ References(dsk[k]) = {}}
               ELSE {})

\* C4 as stated: no value of the graph inline returns references a key of the
\* effective inline set.
C4_AsStated ==
    pc = "inline" =>
        \A k \in DOMAIN res.dsk : References(res.dsk[k]) \cap EffectiveInlineSet = {}

\* C4 on graphs without dict arguments.
C4_WithoutDicts == NoDicts => C4_AsStated

-----------------------------------------------------------------------------
(* Properties of toposort, getcycle, isdag and cull (specification SpecGraph) *)

\* The keys reachable from the keys S by following dependencies zero or more times.
RECURSIVE Reachable(_, _)
Reachable(d, S) ==
    LET more == S \cup UNION {get_dependencies(d, d[k]) : k \in S}
    IN IF more = S THEN S ELSE Reachable(d, more)

\* k lies on a dependency cycle of d.
OnCycle(d, k) == k \in Reachable(d, get_dependencies(d, d[k]))

CycleReachable(d, S) == \E k \in Reachable(d, S) : OnCycle(d, k)

\* How often the key k is referenced in the value v.
RECURSIVE Occurrences(_, _)
Occurrences(v, k) ==
    IF v.tag = "str" THEN (IF v.s = k THEN 1 ELSE 0)
    ELSE IF istask(v) THEN Sum([i \in 1..(Len(v.xs) - 1) |-> Occurrences(v.xs[i + 1], k)])
    ELSE IF v.tag \in {"list", "dict"} THEN Sum([i \in DOMAIN v.xs |-> Occurrences(v.xs[i], k)])
    ELSE 0

Count(xs, x) == Cardinality({i \in DOMAIN xs : xs[i] = x})

\* C5: cull(G, O) returns the keys reachable from O with their values in G, and
\* for each of them the list of keys its value references, each key as often as
\* the value references it.
C5_CullReachable ==
    pc = "cull" =>
        /\ DOMAIN res.out = Reachable(dsk, keys)
        /\ DOMAIN res.dependencies = DOMAIN res.out
        /\ \A k \in DOMAIN res.out :
              /\ res.out[k] = dsk[k]
              /\ Range(res.dependencies[k]) \subseteq DOMAIN dsk
              /\ \A x \in DOMAIN dsk :
                    Count(res.dependencies[k], x) = Occurrences(dsk[k], x)

\* C5 case: a key outside the reachable set was dropped, a reachable key that is
\* no target was kept, and a key is referenced twice by one value.
C5_Witness ==
    /\ pc = "cull"
    /\ DOMAIN res.out # DOMAIN dsk
    /\ DOMAIN res.out # keys
    /\ \E k \in DOMAIN res.out : \E x \in DOMAIN dsk : Count(res.dependencies[k], x) = 2

Position(xs, x) == CHOOSE i \in DOMAIN xs : xs[i] = x

\* C6: for acyclic G, toposort(G) lists every key of G exactly once, each key
\* after all the keys it depends on.
C6_ToposortOrder ==
    pc = "toposort" /\ ~CycleReachable(dsk, DOMAIN dsk) =>
        /\ ~res.raised
        /\ Len(res.ordered) = Cardinality(DOMAIN dsk)
        /\ Range(res.ordered) = DOMAIN dsk
        /\ \A k \in DOMAIN dsk : \A x \in get_dependencies(dsk, dsk[k]) :
              Position(res.ordered, x) < Position(res.ordered, k)

\* C6 case: an acyclic graph with a diamond (a key with two dependencies that
\* share a dependency) was sorted.
C6_Witness ==
    /\ pc = "toposort"
    /\ ~CycleReachable(dsk, DOMAIN dsk)
    /\ \E k, x, y, z \in DOMAIN dsk :
          /\ x # y
          /\ {x, y} \subseteq get_dependencies(dsk, dsk[k])
          /\ z \in get_dependencies(dsk, dsk[x]) \cap get_dependencies(dsk, dsk[y])
    /\ Len(res.ordered) = 4

\* C7: isdag(G, O) is true exactly when no dependency cycle is reachable from O,
\* and getcycle(G, O) is empty in exactly that case.
C7_IsdagIffNoCycle ==
    /\ pc = "isdag" => (res <=> ~CycleReachable(dsk, keys))
    /\ pc = "getcycle" => (res = <<>> <=> ~CycleReachable(dsk, keys))

\* C7 case: isdag is true although G has a cycle, which O does not reach, and
\* the part O reaches shares a dependency.
C7_Witness ==
    /\ pc = "isdag"
    /\ res
    /\ CycleReachable(dsk, DOMAIN dsk)
    /\ \E k, x \in Reachable(dsk, keys) :
          /\ k # x
          /\ get_dependencies(dsk, dsk[k]) \cap get_dependencies(dsk, dsk[x]) # {}

\* C8 as stated: a non-empty list returned by getcycle starts and ends with the
\* same key, and each element depends on the element that follows it.
C8_AsStated ==
    pc = "getcycle" /\ res # <<>> =>
        /\ res[1] = res[Len(res)]
        /\ \A i \in 1..(Len(res) - 1) : res[i + 1] \in get_dependencies(dsk, dsk[res[i]])

-----------------------------------------------------------------------------
(* Properties of fuse (specification Spec) *)

\* C1: every protected key k of G is a key of the graph fuse returns, and
\* evaluating k in that graph gives the value k has in G.
C1_FusePreservesProtected ==
    pc = "done" =>
        \A k \in keys : /\ k \in DOMAIN res.dsk
                        /\ evaluate(res.dsk, k) = evaluate(dsk, k)

\* C1 case: fuse removed keys and rewrote the value of a protected task.
C1_Witness ==
    /\ pc = "done"
    /\ DOMAIN res.dsk # DOMAIN dsk
    /\ \E k \in keys : istask(dsk[k]) /\ res.dsk[k] # dsk[k]

\* The pairs <<p, c>> where p depends on c alone and c may be fused into p:
\* the reducible chains of two keys.
ReducibleLinks ==
    LET red == fuse_reducible(dsk, opts.keys_none, keys, ord)
    IN {l \in (DOMAIN dsk) \X (DOMAIN dsk) :
          l[2] \in red /\ get_dependencies(dsk, dsk[l[1]]) = {l[2]}}

Chain2 == ReducibleLinks # {}

Chain3 == \E l1, l2 \in ReducibleLinks : l1[2] = l2[1]

NumKeys(d) == Cardinality(DOMAIN d)

\* C9 as stated: fuse(G) has at most as many keys as G, and strictly fewer
\* whenever G has a reducible chain of two keys (rename_keys true, the default).
C9_AsStated ==
    pc = "done" =>
        /\ NumKeys(res.dsk) <= NumKeys(dsk)
        /\ (keys = {} /\ opts.rename_keys /\ Chain2 => NumKeys(res.dsk) < NumKeys(dsk))

\* C9: fuse(G) has at most as many keys as G; it has strictly fewer when keys
\* are not renamed and G has a reducible chain of two keys, and when keys are
\* renamed and G has a reducible chain of three keys (a renamed chain leaves
\* two keys: the fused task under its new name and the root as an alias).
C9_FuseKeyCount ==
    pc = "done" =>
        /\ NumKeys(res.dsk) <= NumKeys(dsk)
        /\ (~opts.rename_keys /\ Chain2 => NumKeys(res.dsk) < NumKeys(dsk))
        /\ (opts.rename_keys /\ Chain3 => NumKeys(res.dsk) < NumKeys(dsk))

\* C9 case: a chain of three keys was fused and renamed.
C9_Witness ==
    /\ pc = "done"
    /\ opts.rename_keys
    /\ Chain3
    /\ NumKeys(res.dsk) < NumKeys(dsk)
    /\ \E k \in DOMAIN res.dsk : k \notin DOMAIN dsk

\* The keys of the returned graph whose task is headed by a SubgraphCallable.
SubgraphKeys(d) == {k \in DOMAIN d : istask(d[k]) /\ d[k].xs[1].tag = "sgc"}

-----------------------------------------------------------------------------
(* Properties of subs (specification SpecSubs) *)

\* x has the type of the key k and equals it; when they are tuples they have
\* the same length and their elements are equal and of equal type.
SameTypeAndEqual(x, k) ==
    /\ x.tag = k.tag
    /\ py_eq(x, k)
    /\ x.tag = "tuple" =>
          /\ Len(x.xs) = Len(k.xs)
          /\ \A i \in DOMAIN x.xs : x.xs[i].tag = k.xs[i].tag

\* t with every occurrence of k replaced by v: in the arguments of tasks (never
\* the callable) and in the elements of lists, at any depth.
RECURSIVE Substituted(_, _, _)
Substituted(t, k, v) ==
    IF istask(t)
    THEN Tup([i \in DOMAIN t.xs |-> IF i = 1 THEN t.xs[1] ELSE Substituted(t.xs[i], k, v)])
    ELSE IF SameTypeAndEqual(t, k) THEN v
    ELSE IF t.tag = "list"
    THEN Lst([i \in DOMAIN t.xs |-> Substituted(t.xs[i], k, v)])
    ELSE t

\* C11 as stated: subs(t, k, v) is t with exactly the occurrences replaced that
\* have the type of k and equal it (tuples: element-wise, with elements of
\* equal type), inside nested tasks and lists too, never a task's callable.
C11_AsStated ==
    pc = "subs" => res = Substituted(opts.task, opts.key, opts.val)

\* C11 for keys that are no tuples.
C11_NonTupleKeys == opts.key.tag # "tuple" => C11_AsStated

\* C11 for occurrences that are arguments of a task: no list is involved and
\* the value itself is a task.
C11_TaskArguments ==
    (istask(opts.task) /\ \A i \in DOMAIN opts.task.xs : opts.task.xs[i].tag # "list")
        => C11_AsStated

-----------------------------------------------------------------------------
(* Properties of fuse and fuse_linear on the same graphs (specification Spec) *)

\* The key k of G has a dependent in G, and in the returned dependencies some
\* key still depends on k, or on the new key that k has become an alias of.
StillReferenced(k) ==
    (\E j \in DOMAIN dsk : k \in get_dependencies(dsk, dsk[j])) =>
        \E j \in (DOMAIN res.dependencies) \ {k} :
            \/ k \in res.dependencies[j]
            \/ /\ res.dsk[k].tag = "str"
               /\ res.dsk[k].s \notin DOMAIN dsk
               /\ res.dsk[k].s \in res.dependencies[j]

\* C12: a key of `keys` is never absorbed by a dependent.  fuse never counts it
\* as reducible, never offers it for a merge and never takes it out of the
\* working graph; in the graph fuse or fuse_linear returns it is a key, and
\* a key still depends on it when one did in G.
C12_KeysNeverAbsorbed ==
    /\ reducible \cap keys = {}
    /\ \A i \in DOMAIN info_stack : info_stack[i].key \notin keys
    /\ pc \in {"outer", "inner", "rename", "done"} => keys \subseteq DOMAIN rv
    /\ pc \in {"done", "fuse_linear"} =>
          \A k \in keys : k \in DOMAIN res.dsk /\ StillReferenced(k)

\* C12 case: a protected key has a single dependent and is a task or an alias,
\* so that it could be fused were it not protected, and other keys were fused.
C12_Witness ==
    /\ pc \in {"done", "fuse_linear"}
    /\ keys \cap fuse_reducible_unprotected(dsk, FALSE, keys, ord) # {}
    /\ DOMAIN res.dsk # DOMAIN dsk

\* C13 as stated: fuse returns (G', deps') where deps' has the keys of G' and
\* deps'[k] is the set of the keys of G' that the value G'[k] references.
C13_AsStated ==
    pc = "done" =>
        /\ DOMAIN res.dependencies = DOMAIN res.dsk
        /\ \A k \in DOMAIN res.dsk :
              res.dependencies[k] = get_dependencies(res.dsk, res.dsk[k])

\* C13 on graphs without dict arguments.
C13_WithoutDicts == NoDicts => C13_AsStated

-----------------------------------------------------------------------------
(* Frame of the calls (specifications SpecOpt, SpecGraph and Spec) *)

\* C14 as stated: no call changes its arguments: after every step the caller's
\* graph and the caller's keys collection are what they were before it.
C14_AsStated == [][dsk' = dsk /\ keys' = keys]_vars

\* C14 for the graph alone: no call changes the caller's graph.
C14_GraphUnchanged == [][dsk' = dsk]_vars

\* C14 for every call but inline with its keys passed as a set.
C14_KeysUnchanged == [][(pc' = "inline" /\ res'.keys_is_set) \/ keys' = keys]_vars

-----------------------------------------------------------------------------
(* Properties of the renaming of fuse_linear (specification SpecOpt) *)

\* The chains fuse_linear fuses, in the order it fuses them; each chain starts
\* with its top, the key the rest of the graph depends on.
FusedChains ==
    linear_chains(IterSet(DOMAIN dsk, ord), all_dependencies_list(dsk), res.keys_none, keys)

ChainTops == {FusedChains[i][1] : i \in DOMAIN FusedChains}

\* The key the renamer gives for the i-th chain, and whether that key is a key
\* of G or was given for an earlier chain.
NewKey(i) == linear_key_renamer(res.rename_keys, FusedChains[i])

KeyTaken(i) == NewKey(i) \in DOMAIN dsk \/ \E j \in 1..(i - 1) : NewKey(j) = NewKey(i)

RenamedTops == {FusedChains[i][1] : i \in {j \in DOMAIN FusedChains : ~KeyTaken(j)}}

\* Each chain's fused value is under its new key, with the top an alias of it
\* (an alias that is not protected is deleted when keys are given), unless the
\* new key is taken: then the fused value is under the chain's top.
RenameOrKeep ==
    \A i \in DOMAIN FusedChains :
        LET top == FusedChains[i][1] IN
        IF KeyTaken(i)
        THEN /\ top \in DOMAIN res.dsk
             /\ evaluate(res.dsk, top) = evaluate(dsk, top)
             /\ NewKey(i) \in (DOMAIN dsk) \cap (DOMAIN res.dsk) =>
                   evaluate(res.dsk, NewKey(i)) = evaluate(dsk, NewKey(i))
        ELSE /\ NewKey(i) \in DOMAIN res.dsk
             /\ evaluate(res.dsk, NewKey(i)) = evaluate(dsk, top)
             /\ IF top \in DOMAIN res.dsk THEN res.dsk[top] = Str(NewKey(i))
                ELSE ~res.keys_none /\ top \notin keys

\* The keys of G that are kept with another value.
Rebound == {k \in (DOMAIN dsk) \cap (DOMAIN res.dsk) : res.dsk[k] # dsk[k]}

-----------------------------------------------------------------------------
(* Properties of toposort on graphs that may hold cycles (specification SpecGraph) *)

\* C16: toposort(G) raises exactly when G holds a dependency cycle; when it
\* does not raise it returns all the keys of G.
C16_ToposortRaisesIffCycle ==
    pc = "toposort" =>
        /\ res.raised <=> CycleReachable(dsk, DOMAIN dsk)
        /\ ~res.raised => Range(res.ordered) = DOMAIN dsk

\* C16 case: toposort raised after it had already ordered some keys, on a
\* graph whose cycle does not go through every key.
C16_Witness ==
    /\ pc = "toposort"
    /\ res.raised
    /\ res.ordered # <<>>
    /\ \E k \in DOMAIN dsk : ~OnCycle(dsk, k)

-----------------------------------------------------------------------------
(* Properties of the lists handed to the key renamers (specification Spec) *)

\* The root of a list of fused keys: the key that no other key of the list
\* depends on in G, so that only the rest of the graph depends on it.
RootOf(ks) ==
    CHOOSE r \in Range(ks) :
        \A m \in Range(ks) \ {r} : r \notin Reachable(dsk, get_dependencies(dsk, dsk[m]))

\* The lists fuse hands to its renamer (lines 789-791): the entries of fused_trees.
FuseRenamerLists == {fused_trees[i][2] : i \in DOMAIN fused_trees}

\* C17 as stated: the renamer of fuse and the renamer of fuse_linear are called
\* with a list of the fused keys whose last element is the root key.
C17_AsStated ==
    /\ pc = "rename" /\ opts.rename_keys =>
          \A ks \in FuseRenamerLists : Last(ks) = RootOf(ks)
    /\ pc = "fuse_linear" /\ res.rename_keys # "none" =>
          \A i \in DOMAIN FusedChains : Last(FusedChains[i]) = RootOf(FusedChains[i])

\* C17 for fuse without the subgraph post-pass: the root is the last element.
C17_FuseRootLast ==
    pc = "rename" /\ opts.rename_keys /\ ~opts.fuse_subgraphs =>
        \A i \in DOMAIN fused_trees :
            /\ Last(fused_trees[i][2]) = fused_trees[i][1]
            /\ Last(fused_trees[i][2]) = RootOf(fused_trees[i][2])

\* C17 for fuse_linear: the root is the first element of the list.
C17_FuseLinearRootFirst ==
    pc = "fuse_linear" /\ res.rename_keys # "none" =>
        \A i \in DOMAIN FusedChains : FusedChains[i][1] = RootOf(FusedChains[i])

-----------------------------------------------------------------------------
(* Properties of the merge steps of fuse (specification Spec) *)

\* The fudge of a parent with the single child info: the child's fudge is
\* clamped to at most |child.edges| - 1 (when that is not negative) and
\* incremented when the parent brings new edges; clamp_first tells which of
\* the two is done first.
SingleFudge(info, no_new_edges, clamp_first) ==
    LET bound == Cardinality(info.edges) - 1
        clamped(f) == IF f > bound /\ bound >= 0 THEN bound ELSE f
        incremented(f) == IF no_new_edges THEN f ELSE f + 1
    IN IF clamp_first THEN incremented(clamped(info.fudge))
       ELSE clamped(incremented(info.fudge))

\* The step fuse takes at a parent with exactly one reducible child: the child
\* is substituted into the parent and deleted exactly when the test on the
\* metrics passes, else it is put back with its task.
SingleChildStep(clamp_first) ==
    AtParent /\ num_children = 1 =>
        LET info == Last(info_stack)
            edges == (deps[parent] \ reducible) \cup info.edges
            no_new_edges == Cardinality(edges) = Cardinality(info.edges)
            fudge == SingleFudge(info, no_new_edges, clamp_first)
            accept == /\ info.num_nodes + fudge <= opts.ave_width * info.height
                      /\ (no_new_edges \/ info.height * 1000 < opts.max_depth_new_edges)
            val == subs(dsk[parent], Str(info.key), info.task)
        IN /\ info.key \notin DOMAIN rv' <=> accept
           /\ accept =>
                 /\ deps' = Put(Del(deps, info.key), parent,
                                (deps[parent] \ {info.key}) \cup deps[info.key])
                 /\ IF Front(children_stack) = <<>> THEN rv'[parent] = val
                    ELSE /\ Last(info_stack').task = val
                         /\ Last(info_stack').edges = edges
                         /\ Last(info_stack').fudge = fudge
           /\ ~accept =>
                 /\ rv'[info.key] = info.task
                 /\ rv'[parent] = rv[parent]
                 /\ deps' = deps

\* C18 as stated: at a parent with one reducible child, fudge is incremented
\* when the parent brings new edges and then clamped to |child.edges| - 1, and
\* the child is absorbed exactly when (num_nodes + fudge) / height <= ave_width
\* and (no_new_edges or height < max_depth_new_edges).
C18_AsStated == [][SingleChildStep(FALSE)]_vars

\* C18: at a parent with one reducible child, fudge is first clamped to
\* |child.edges| - 1 and then incremented when the parent brings new edges, and
\* the child is absorbed exactly when (num_nodes + fudge) / height <= ave_width
\* and (no_new_edges or height < max_depth_new_edges); else it is put back.
C18_SingleChildMerge == [][SingleChildStep(TRUE)]_vars

\* C18 case: a child with one edge was not absorbed by a parent that brings a
\* new edge (ave_width = 1: the increment after the clamp makes the test fail).
C18_Witness ==
    /\ pc = "done"
    /\ opts.ave_width = 1
    /\ ~opts.fuse_subgraphs
    /\ \E p, c \in DOMAIN dsk :
          LET red == fuse_reducible(dsk, opts.keys_none, keys, ord)
              dp == get_dependencies(dsk, dsk[p])
              dc == get_dependencies(dsk, dsk[c])
          IN /\ dp \cap red = {c}
             /\ dc \cap red = {}
             /\ Cardinality(dc) = 1
             /\ ~(dp \ {c} \subseteq dc)
             /\ c \in DOMAIN res.dsk
             /\ res.dsk[p] = dsk[p]

\* The step fuse takes at a parent with n > 1 reducible children, whose infos
\* are the last n of the info stack: all of them are substituted into the
\* parent and deleted exactly when the test on the joint metrics passes, else
\* each is put back with its task.
MultiChildStep ==
    AtParent /\ num_children > 1 =>
        LET n == num_children
            infos == [i \in 1..n |-> info_stack[Len(info_stack) - n + i]]
            kids == {infos[i].key : i \in 1..n}
            height == Max({infos[i].height : i \in 1..n})
            width == Sum([i \in 1..n |-> infos[i].width])
            num_nodes == Sum([i \in 1..n |-> infos[i].num_nodes])
            num_single_nodes == Cardinality({i \in 1..n : infos[i].height = 1})
            children_edges == UNION {infos[i].edges : i \in 1..n}
            max_num_edges == Max({Cardinality(infos[i].edges) : i \in 1..n})
            bound == Cardinality(children_edges) - 1
            summed == Sum([i \in 1..n |-> infos[i].fudge])
                      + Min({n - 1, Max({0, Cardinality(children_edges) - max_num_edges})})
            clamped == IF summed > bound /\ bound >= 0 THEN bound ELSE summed
            edges == (deps[parent] \ reducible) \cup children_edges
            no_new_edges == Cardinality(edges) = Cardinality(children_edges)
            fudge == IF no_new_edges THEN clamped ELSE clamped + 1
            accept == /\ num_nodes + fudge <= opts.ave_width * height
                      /\ num_single_nodes <= opts.ave_width
                      /\ width <= opts.max_width
                      /\ height * 1000 <= opts.max_height
                      /\ (no_new_edges \/ height * 1000 < opts.max_depth_new_edges)
            val == multi_subs(dsk[parent], infos)
        IN /\ kids = deps[parent] \cap reducible
           /\ accept =>
                 /\ kids \cap DOMAIN rv' = {}
                 /\ kids \cap DOMAIN deps' = {}
                 /\ parent \in DOMAIN deps'
                 /\ deps'[parent] = (deps[parent] \ kids) \cup UNION {deps[c] : c \in kids}
                 /\ IF Front(children_stack) = <<>>
                    THEN parent \in DOMAIN rv' /\ rv'[parent] = val
                    ELSE /\ info_stack' # <<>>
                         /\ Last(info_stack').task = val
                         /\ Last(info_stack').edges = edges
                         /\ Last(info_stack').fudge = fudge
           /\ ~accept =>
                 /\ \A i \in 1..n : infos[i].key \in DOMAIN rv' /\ rv'[infos[i].key] = infos[i].task
                 /\ rv'[parent] = rv[parent]
                 /\ deps' = deps

RECURSIVE RegionGrow(_, _, _)
RegionGrow(S, red, d) ==
    LET T == S \cup UNION {d[k] \cap red : k \in S}
    IN IF T = S THEN S ELSE RegionGrow(T, red, d)

\* The reduction region under top: the reducible keys the traversal that
\* starts at top walks through (lines 555-565).
Region(top) ==
    Bind(fuse_reducible(dsk, opts.keys_none, keys, ord), LAMBDA red :
    Bind(all_dependencies(dsk), LAMBDA d : RegionGrow({top}, red, d) \ {top}))

\* Between two passes of the outer loop both stacks are empty, and the region
\* of the pass that has just ended has no reducible key left. Inside a pass
\* the loop body can run: the stack it reads is not empty, and a parent finds
\* the infos of its children on the info stack.
PassDone ==
    /\ pc \in {"outer", "rename", "done"} => children_stack = <<>> /\ info_stack = <<>>
    /\ pc = "outer" /\ parent # "" => Region(parent) \cap reducible = {}
    /\ pc = "inner" => children_stack # <<>>
    /\ AtParent => num_children >= 1 /\ Len(info_stack) >= num_children

\* The reducible keys the traversal has not yet put on a stack.
Unvisited ==
    reducible \ (Range(children_stack) \cup {info_stack[i].key : i \in DOMAIN info_stack})

\* A measure of what fuse has left to do once it is set up: the reducible
\* keys, then the keys not yet visited, then the height of children_stack,
\* then the phase.
Rank ==
    LET B == Cardinality(DOMAIN dsk) + 2
        phase == CASE pc = "inner" -> 3
                   [] pc = "outer" -> 2
                   [] pc = "rename" -> 1
                   [] OTHER -> 0
    IN ((Cardinality(reducible) * B + Cardinality(Unvisited)) * B
        + Len(children_stack)) * 4 + phase

\* A pass starts in a region that still has a reducible key, no step of the
\* loop adds a key to the reducible set, and every step brings fuse nearer to
\* its end.
PassStep ==
    /\ pc = "outer" /\ pc' = "inner" => Region(parent') \cap reducible # {}
    /\ pc # "start" => reducible' \subseteq reducible
    /\ pc # "start" => Rank' < Rank

\* C20: fuse terminates (every step lowers a natural-number measure); each
\* pass of the outer loop takes every reducible key of the region it explores
\* out of the reducible set, whether merged or put back, so that the set
\* strictly shrinks on every pass; and when a pass ends children_stack and
\* info_stack are both empty.
C20_FuseTerminates == []PassDone /\ [][PassStep]_vars

\* C20 case: a pass over a region of two keys, one merged and one put back,
\* has ended with both stacks empty.
C20_Witness ==
    /\ pc = "outer"
    /\ parent # ""
    /\ children_stack = <<>>
    /\ info_stack = <<>>
    /\ Region(parent) \cap DOMAIN rv # {}
    /\ Region(parent) \ DOMAIN rv # {}

-----------------------------------------------------------------------------
(* Renaming of the fused roots (specification Spec) *)

\* The last step of fuse, lines 789-798. With renaming, every fused tree whose
\* new name n is not a key of the working graph has its value moved to n and
\* its root r made an alias of n, with dependencies {n}; n gets the
\* dependencies recorded for r (recorded) or those its value has in the result.
\* Without renaming nothing is added: the keys are keys of the input.
RenameStep(recorded) ==
    pc = "rename" /\ pc' = "done" =>
        IF opts.rename_keys
        THEN \A i \in DOMAIN fused_trees :
                LET r == fused_trees[i][1]
                    n == default_fused_keys_renamer(fused_trees[i][2])
                IN /\ r \in DOMAIN rv
                   /\ n \notin DOMAIN rv =>
                        /\ {n, r} \subseteq DOMAIN res'.dsk
                        /\ {n, r} \subseteq DOMAIN res'.dependencies
                        /\ res'.dsk[n] = rv[r]
                        /\ res'.dsk[r] = Str(n)
                        /\ res'.dependencies[r] = {n}
                        /\ res'.dependencies[n] =
                              IF recorded THEN deps[r]
                              ELSE get_dependencies(res'.dsk, res'.dsk[n])
        ELSE /\ fused_trees = <<>>
             /\ res'.dsk = rv
             /\ DOMAIN res'.dsk \subseteq DOMAIN dsk

\* Without renaming, a fused value stays under its root: a key that leaves the
\* info stack and stays in the graph is bound to the task of its info, and the
\* top of a region to the value its children were substituted into.
FusedAtRoot ==
    AtParent /\ ~opts.rename_keys =>
        /\ \A i \in DOMAIN top_infos(num_children) :
              LET info == top_infos(num_children)[i]
              IN info.key \in DOMAIN rv' => rv'[info.key] = info.task
        /\ pc' = "outer" /\ DOMAIN rv' # DOMAIN rv =>
              /\ parent \in DOMAIN rv'
              /\ rv'[parent] = multi_subs(dsk[parent], top_infos(num_children))

\* C21 as stated: after renaming, the new name of every fused tree is bound to
\* the fused value with that value's dependencies, and the root is an alias
\* of it with dependencies {n}; without renaming no new key appears and each
\* fused value is bound to its root.
C21_AsStated == [][RenameStep(FALSE) /\ FusedAtRoot]_vars

\* C21 with the dependencies fuse has recorded for the root.
C21_RecordedDependencies == [][RenameStep(TRUE) /\ FusedAtRoot]_vars

\* C21 on graphs without dict arguments.
C21_WithoutDicts == [][NoDicts => RenameStep(FALSE) /\ FusedAtRoot]_vars

-----------------------------------------------------------------------------
(* The subgraph post-pass of fuse (specification Spec) *)

\* In the working graph, c is the only dependency of p, p the only dependent
\* of c, and c is not protected: p and c are neighbours in a linear chain.
SgLink(p, c) ==
    /\ p \in DOMAIN deps
    /\ deps[p] = {c}
    /\ (opts.keys_none \/ c \notin keys)
    /\ \A q \in DOMAIN deps : c \in deps[q] => q = p

\* The linear chain that starts at key r, ancestor first.
RECURSIVE SgChainFrom(_)
SgChainFrom(r) ==
    IF \E c \in DOMAIN rv : SgLink(r, c)
    THEN <<r>> \o SgChainFrom(CHOOSE c \in DOMAIN rv : SgLink(r, c))
    ELSE <<r>>

\* The roots of the linear chains of the working graph.
SgRoots ==
    {r \in DOMAIN rv : (\E c \in DOMAIN rv : SgLink(r, c))
                       /\ ~\E q \in DOMAIN rv : SgLink(q, r)}

\* The post-pass wraps the chain at root r: the root is bound to
\* (SubgraphCallable(chain's keys and values, r, inkeys), *inkeys) with inkeys
\* the dependencies of the deepest key, and the other keys are deleted.
SgWrapped(chain) ==
    LET r == chain[1]
        gone == Range(Tail(chain))
        ins == deps[Last(chain)]
    IN /\ r \in DOMAIN rv'
       /\ istask(rv'[r])
       /\ LET inkeys == [i \in 1..(Len(rv'[r].xs) - 1) |-> rv'[r].xs[i + 1].s]
          IN /\ Range(inkeys) = ins
             /\ Len(inkeys) = Cardinality(ins)
             /\ \A i \in DOMAIN inkeys : rv'[r].xs[i + 1] = Str(inkeys[i])
             /\ rv'[r].xs[1] = SubgraphCallable([k \in Range(chain) |-> rv[k]], r, inkeys)
       /\ r \in DOMAIN deps' /\ deps'[r] = ins
       /\ gone \cap DOMAIN rv' = {}
       /\ gone \cap DOMAIN deps' = {}

\* The step of the post-pass: a chain is wrapped exactly when two or more of
\* its keys are bound to tasks, and every other key keeps its value and its
\* dependencies.
SubgraphStep ==
    pc = "outer" /\ pc' = "rename" /\ opts.fuse_subgraphs =>
        /\ \A r \in SgRoots :
              LET chain == SgChainFrom(r)
              IN IF Cardinality({k \in Range(chain) : istask(rv[k])}) >= 2
                 THEN SgWrapped(chain)
                 ELSE \A k \in Range(chain) :
                         /\ k \in DOMAIN rv' /\ rv'[k] = rv[k]
                         /\ k \in DOMAIN deps' /\ deps'[k] = deps[k]
        /\ \A k \in (DOMAIN rv) \ UNION {Range(SgChainFrom(r)) : r \in SgRoots} :
              /\ k \in DOMAIN rv' /\ rv'[k] = rv[k]
              /\ k \in DOMAIN deps' /\ deps'[k] = deps[k]
        /\ DOMAIN rv' \subseteq DOMAIN rv

\* C22: with fuse_subgraphs the post-pass wraps a linear chain in a
\* SubgraphCallable exactly when two or more of its keys are bound to tasks;
\* the inner graph holds the chain's keys with their values, the output key is
\* the root, the input keys are the dependencies of the deepest key, the root
\* is bound to (callable, *inkeys), the other chain keys leave the graph and
\* the dependencies, and a chain with fewer than two tasks is left as it is.
C22_SubgraphPostPass == [][SubgraphStep]_vars

\* C22 case: the post-pass has wrapped a chain of two tasks, deleting the
\* deeper key, and has left a chain with fewer than two tasks as it was.
C22_Witness ==
    /\ pc = "rename"
    /\ opts.fuse_subgraphs
    /\ \E r \in DOMAIN rv :
          /\ istask(rv[r]) /\ rv[r].xs[1].tag = "sgc"
          /\ Cardinality(DOMAIN sgc_dsk(rv[r].xs[1])) >= 2
          /\ DOMAIN sgc_dsk(rv[r].xs[1]) \cap DOMAIN rv = {r}
    /\ \E r \in SgRoots :
          /\ Cardinality({k \in Range(SgChainFrom(r)) : istask(rv[k])}) < 2
          /\ \A k \in Range(SgChainFrom(r)) : rv[k] = dsk[k]

-----------------------------------------------------------------------------
(* Equality and hashing of SubgraphCallable (specification SpecSgc) *)

\* C23 as stated: two SubgraphCallables that are equal have the same hash,
\* also when their input keys are the same set in a different order.
C23_AsStated ==
    pc = "compared" => (res.eq => res.hash_self = res.hash_other)

\* C23 for instances whose input keys are the same tuple: equal instances
\* have the same hash.
C23_SameInkeysTuple ==
    pc = "compared" /\ sgc_inkeys(opts.self) = sgc_inkeys(opts.other) =>
        (res.eq => res.hash_self = res.hash_other)

-----------------------------------------------------------------------------
(* get_dependencies against subs (specification SpecSubs) *)

\* A graph that binds every string the values of SpecSubs hold.
SubsGraph == [k \in {"x", "y", "v"} |-> Num(1)]

\* After subs(task, key, val), with key a dependency of task and not of val,
\* get_dependencies does not report key any more.
KeyReplaced ==
    pc = "subs" /\ opts.key.tag = "str"
    /\ opts.key.s \in get_dependencies(SubsGraph, opts.task)
    /\ opts.key.s \notin get_dependencies(SubsGraph, opts.val)
    => opts.key.s \notin get_dependencies(SubsGraph, res)

\* C24 as stated: a key that get_dependencies reports for a value is not
\* reported for the value subs returns, when the replacement does not hold the
\* key; also for a key inside a dict.
C24_AsStated == KeyReplaced

\* C24 for values without dicts.
C24_WithoutDicts == ~HasDict(opts.task) => KeyReplaced

====
